---------------------------- MODULE Spec2Model ----------------------------
(***************************************************************************)
(* A model of the coreset crate: the facility registry                     *)
(* (src/src/facility.rs) and the streaming facility-location engine BMOR   *)
(* (src/src/bmor.rs).                                                      *)
(*                                                                         *)
(* Numbers.  Points are 1-dimensional with integer coordinates and the     *)
(* distance is |a - b|, so every f32 distance and every f64 weight and     *)
(* cost of the model is a small integer, which f32/f64 represent exactly.  *)
(* The parameter gamma and the cost bound phase_cost_upper are fractions   *)
(* <<num, den>> whose denominator is a power of 2: every f64 product and   *)
(* comparison they enter is exact.  A uniform draw u of [0,1) is a         *)
(* fraction <<num, den>> too.                                              *)
(* Ranks are 0-based as in the code; the facility of rank r is             *)
(* centers[r + 1].                                                         *)
(***************************************************************************)
EXTENDS Integers, Sequences, FiniteSets, TLC

VARIABLES
    bmor,       \* Bmor            : [k, nbdata_expected, beta, gamma], gamma
                \*                   being a fraction <<num, den>>
    state,      \* BmorState       : the fields of the struct, rng apart
    u,          \* the last value get_unif_sample returned, <<num, den>>
    stream,     \* the data given to the top-level process_weighted_block
    stack,      \* the active calls of process_weighted_block, innermost last
    pc,         \* where the innermost call stands
    add_res,    \* the last value add_data returned
    nb_draws,   \* how many samples get_unif_sample has taken from the rng
    submitted,  \* the ids the top-level loop has passed to add_data, in order
    centers,    \* Facilities.centers of a registry used on its own
    point,      \* the argument of get_nearest_facility
    nearest,    \* the value get_nearest_facility returned
    npc,        \* "call" before get_nearest_facility, "returned" after
    dmax,       \* the argument dmax of match_point
    matched,    \* what match_point returned, and how many facilities it read
    mp_alpha,   \* Mettu-Plaxton: the factor alpha
    mp_points,  \* Mettu-Plaxton: the points [pt, r] by ascending radius r
    mp_i,       \* Mettu-Plaxton: the place of the next point to visit
    dcall,      \* the call under way: "dispatch_data" or "dispatch_labels"
    dpc,        \* where that call stands: "start", "par", "done" or "panic"
    d_data,     \* its argument data
    d_weights,  \* its argument weights: [some, v], Option<&Vec<f32>>
    d_labels,   \* its argument labels (dispatch_labels)
    wpc,        \* per item, where the closure dispatch_i stands
    w_near,     \* per item, what get_nearest_facility returned to dispatch_i
    locks,      \* per facility, the item whose closure holds its write lock, or 0
    held,       \* per item, the locks its closure holds: [kind, rank]
    scan_i,     \* per item, the index i of the loop of get_nearest_facility
    d_first,    \* what an earlier call with the same arguments left, if any
    label_distribution,  \* per facility, the count of each label
    global_cost, \* the local global_cost of the call
    scale       \* get_neighborhood_size: data, nb_sample, the anchor i, the
                \* number k of distances sampled for it, dvec, the indices
                \* picked for it, dist_2, and where the call stands

bmorVars == <<bmor, state, u, stream, stack, pc, add_res, nb_draws, submitted>>
matchVars == <<dmax, matched, mp_alpha, mp_points, mp_i>>
nearVars == <<point, nearest, npc, dmax, matched, mp_alpha, mp_points, mp_i>>
dispVars == <<dcall, dpc, d_data, d_weights, d_labels, wpc, w_near, locks,
              held, scan_i, d_first, label_distribution, global_cost>>
scaleVars == <<scale>>
vars == <<bmor, state, u, stream, stack, pc, add_res, nb_draws, submitted,
          centers, point, nearest, npc, dmax, matched, mp_alpha, mp_points, mp_i,
          dcall, dpc, d_data, d_weights, d_labels, wpc, w_near, locks,
          held, scan_i, d_first, label_distribution, global_cost, scale>>

----------------------------------------------------------------------------
(* Bounds of the model. *)

\* longest input stream given to BMOR
MaxPoints == 3
\* phase restarts after which the model stops following a run
MaxPhase == 3
\* largest registry handed to get_nearest_facility on its own
MaxFacilities == 3

\* items given to one dispatch
MaxItems == 2
\* largest data set given to get_neighborhood_size
MaxData == 4

\* coordinates of the 1-dimensional points
Coords == {0, 1, 2, 3}
\* coordinates of the points given to dispatch
DispatchCoords == {0, 1, 3}
\* f32 weights given to dispatch
F32Weights == {1, 2}
\* labels given to dispatch_labels
Labels == {"a", "b"}
\* weights of the points of a weighted stream
Weights == {-1, 1}
\* values of the uniform draw: 0 and 3/4
USamples == {<<0, 1>>, <<3, 4>>}
\* (k, nbdata_expected, beta, gamma) given to Bmor::new
BmorParams ==
    { [k |-> 1, nbdata_expected |-> 1, beta |-> 2, gamma |-> <<1, 1>>],
      [k |-> 1, nbdata_expected |-> 2, beta |-> 2, gamma |-> <<1, 1>>],
      [k |-> 2, nbdata_expected |-> 1, beta |-> 2, gamma |-> <<1, 1>>],
      [k |-> 1, nbdata_expected |-> 1, beta |-> 1, gamma |-> <<2, 1>>],
      [k |-> 1, nbdata_expected |-> 3, beta |-> 2, gamma |-> <<5, 4>>] }

----------------------------------------------------------------------------
(* Arithmetic helpers. *)

Abs(x) == IF x < 0 THEN -x ELSE x

\* a < b, a = b and n * a for f64 values a, b given as fractions <<num, den>>
\* with den > 0, and an integer n
FracLess(a, b) == a[1] * b[2] < b[1] * a[2]
FracEq(a, b) == a[1] * b[2] = b[1] * a[2]
FracTimes(n, a) == <<n * a[1], a[2]>>

\* faulty variant: the f64 is rounded up
TruncAsUsize_Ceil(a) ==
    IF a[1] <= 0 THEN 0 ELSE (a[1] + a[2] - 1) \div a[2]

\* x.trunc() as usize of an f64 x: the fraction is dropped, and a negative
\* value gives 0
TruncAsUsize(a) ==
    IF a[1] <= 0 THEN 0 ELSE a[1] \div a[2]

\* usize::ilog2, defined for n >= 1
RECURSIVE ILog2(_)
ILog2(n) == IF n <= 1 THEN 0 ELSE 1 + ILog2(n \div 2)

\* f32::INFINITY, above every distance of the model
INFINITY == 1000000

\* f32::NAN, as a coordinate and as a distance: a value apart from every
\* coordinate and every distance of the model
NAN == -1

\* usize::MAX; TLC's integers have 32 bits, so the usize of the model is 31
\* bits wide
UsizeMax == 2147483647

\* `x as usize` for an i32 x: a negative x wraps around
AsUsize(x) == IF x < 0 THEN UsizeMax + (1 + x) ELSE x

\* Distance::eval on 1-dimensional points; a NaN coordinate gives a NaN distance
DistEval(a, b) == IF a = NAN \/ b = NAN THEN NAN ELSE Abs(a - b)

----------------------------------------------------------------------------
(* Facility *)

FacilityNew(d_rank, center) ==
    [d_rank |-> d_rank, center |-> center, weight |-> 0, cost |-> 0]

\* faulty variant: the cost grows by the distance, the weight forgotten
FacilityInsert_CostUnweighted(f, weight, dist) ==
    [f EXCEPT !.weight = @ + weight, !.cost = @ + dist]

FacilityInsert(f, weight, dist) ==
    [f EXCEPT !.weight = @ + weight, !.cost = @ + dist * weight]

----------------------------------------------------------------------------
(* Facilities *)

\* faulty variant: the new facility is put at rank 0
FacilitiesInsert_Front(cs, facility) == <<facility>> \o cs

FacilitiesInsert(cs, facility) == Append(cs, facility)

FacilitiesClear(cs) == << >>

\* faulty variant: the comparison reversed once a first distance is held
NearestKeeps_Greater(d_i, dist) == (dist = INFINITY) \/ (d_i >= dist)

\* the comparison of the running minimum in get_nearest_facility; a
\* comparison with NaN is false
NearestKeeps(d_i, dist) == d_i # NAN /\ dist # NAN /\ d_i <= dist

\* the loop of get_nearest_facility from index i (1-based) on
RECURSIVE NearestScan(_, _, _, _, _)
NearestScan(cs, data, i, dist, rank_f) ==
    IF i > Len(cs) THEN [ok |-> TRUE, rank |-> AsUsize(rank_f), dist |-> dist]
    ELSE LET d_i == DistEval(cs[i].center, data)
         IN  IF NearestKeeps(d_i, dist)
             THEN NearestScan(cs, data, i + 1, d_i, i - 1)
             ELSE NearestScan(cs, data, i + 1, dist, rank_f)

\* faulty variant: the scan is run without the test for an empty registry
GetNearestFacility_NoEmptyTest(cs, data) ==
    NearestScan(cs, data, 1, INFINITY, -1)

GetNearestFacility(cs, data) ==
    IF Len(cs) = 0 THEN [ok |-> FALSE, rank |-> -1, dist |-> INFINITY]
    ELSE NearestScan(cs, data, 1, INFINITY, -1)

\* get_facility: None when the rank is not below the number of facilities
GetFacility(cs, rank) ==
    IF rank >= Len(cs) THEN [some |-> FALSE, rank |-> rank]
    ELSE [some |-> TRUE, rank |-> rank]

\* faulty variant: a facility at distance dmax exactly does not match
MatchReaches_Strict(d, d_max) == d # NAN /\ d_max # NAN /\ d < d_max

\* the comparison of match_point; a comparison with NaN is false
MatchReaches(d, d_max) == d # NAN /\ d_max # NAN /\ d <= d_max

\* the loop of match_point from index i (1-based) on: the value returned and
\* the number of facilities whose distance was evaluated
RECURSIVE MatchScan(_, _, _, _)
MatchScan(cs, pt, d_max, i) ==
    IF i > Len(cs) THEN [res |-> FALSE, scanned |-> Len(cs)]
    ELSE IF MatchReaches(DistEval(cs[i].center, pt), d_max)
         THEN [res |-> TRUE, scanned |-> i]
         ELSE MatchScan(cs, pt, d_max, i + 1)

\* faulty variant: the loop returns false as soon as the first facility does
\* not match
MatchPoint_FirstOnly(cs, pt, d_max) ==
    IF Len(cs) = 0 THEN [res |-> FALSE, scanned |-> 0]
    ELSE [res |-> MatchReaches(DistEval(cs[1].center, pt), d_max), scanned |-> 1]

MatchPoint(cs, pt, d_max) == MatchScan(cs, pt, d_max, 1)

----------------------------------------------------------------------------
(* BmorState *)

BmorStateNew(k, nbdata, phase, upper_cost, facility_bound) ==
    [ oneplogn         |-> (1 + ILog2(nbdata)) * k,
      phase            |-> phase,
      li               |-> 1,
      phase_cost_upper |-> upper_cost,
      facility_bound   |-> facility_bound,
      centers          |-> << >>,
      absolute_weight  |-> 0,
      total_cost       |-> 0,
      nb_inserted      |-> 0 ]

\* None, or the rank of the nearest center and its distance; the rank is
\* looked up with get_facility(rank).unwrap(), which panics on a rank that
\* is not in the registry (the rank usize::MAX of a NaN point)
GetNearestCenter(st, pt) ==
    IF Len(st.centers) = 0
    THEN [ok |-> FALSE, rank |-> -1, dist |-> INFINITY, panic |-> FALSE]
    ELSE LET r == GetNearestFacility(st.centers, pt)
         IN  IF GetFacility(st.centers, r.rank).some
             THEN [ok |-> TRUE, rank |-> r.rank, dist |-> r.dist, panic |-> FALSE]
             ELSE [ok |-> FALSE, rank |-> r.rank, dist |-> r.dist, panic |-> TRUE]

\* faulty variant: the draw is compared with <= in place of <
OpensFacility_OrEqual(st, weight, dist, uu) ==
    uu[1] * st.li <= weight * dist * st.oneplogn * uu[2]

\* get_unif_sample() < weight * dist * oneplogn / li, for li > 0; for li = 0
\* the quotient is +inf, NaN or -inf as the numerator is > 0, = 0 or < 0, and
\* the comparison gives the same as the products
OpensFacility(st, weight, dist, uu) ==
    uu[1] * st.li < weight * dist * st.oneplogn * uu[2]

\* faulty variant: the number of facilities is not checked
AboveConstraints_CostOnly(st) ==
    FracLess(st.phase_cost_upper, <<st.total_cost, 1>>)

\* faulty variant: the cost is not checked
AboveConstraints_CountOnly(st) ==
    Len(st.centers) > st.facility_bound

\* faulty variant: the registry counts as too large when it reaches the bound
AboveConstraints_AtBound(st) ==
    \/ FracLess(st.phase_cost_upper, <<st.total_cost, 1>>)
    \/ Len(st.centers) >= st.facility_bound

\* the constraint check that ends update
AboveConstraints(st) ==
    \/ FracLess(st.phase_cost_upper, <<st.total_cost, 1>>)
    \/ Len(st.centers) > st.facility_bound

\* BmorState::update with the draw uu: the state it leaves, what it returns,
\* whether it left the process by exit(1) or panicked in get_nearest_center,
\* and how many samples it took
Update(st, rank_id, pt, weight, uu) ==
    LET nc == GetNearestCenter(st, pt)
    IN  IF nc.panic
        THEN [state |-> st, res |-> FALSE, exit |-> FALSE, panic |-> TRUE, draws |-> 0]
        ELSE IF ~nc.ok
        THEN [state |-> st, res |-> FALSE, exit |-> TRUE, panic |-> FALSE, draws |-> 0]
        ELSE
        LET applied ==
              IF OpensFacility(st, weight, nc.dist, uu)
              THEN [st EXCEPT !.centers =
                       FacilitiesInsert(@, FacilityInsert(FacilityNew(rank_id, pt),
                                                          weight, nc.dist))]
              ELSE [st EXCEPT !.centers[nc.rank + 1] =
                                   FacilityInsert(@, weight, nc.dist),
                              !.total_cost = @ + Abs(weight) * nc.dist]
            counted == [applied EXCEPT !.absolute_weight = @ + Abs(weight),
                                       !.nb_inserted = @ + 1]
        IN  [state |-> counted, res |-> ~AboveConstraints(counted), exit |-> FALSE,
             panic |-> FALSE, draws |-> 1]

\* faulty variant: the weight monitoring is carried over to the next phase
Reinit_KeepWeight(st, li, phase_cost_upper) ==
    [st EXCEPT !.phase = @ + 1,
               !.phase_cost_upper = phase_cost_upper,
               !.li = li,
               !.centers = FacilitiesClear(@),
               !.total_cost = 0]

\* faulty variant: the two arguments land in each other's field
Reinit_SwappedBounds(st, li, phase_cost_upper) ==
    [st EXCEPT !.phase = @ + 1,
               !.phase_cost_upper = <<li, 1>>,
               !.li = TruncAsUsize(phase_cost_upper),
               !.centers = FacilitiesClear(@),
               !.absolute_weight = 0,
               !.total_cost = 0]

\* BmorState::reinit; nb_inserted is not among the fields it assigns
Reinit(st, li, phase_cost_upper) ==
    [st EXCEPT !.phase = @ + 1,
               !.phase_cost_upper = phase_cost_upper,
               !.li = li,
               !.centers = FacilitiesClear(@),
               !.absolute_weight = 0,
               !.total_cost = 0]

----------------------------------------------------------------------------
(* Bmor *)

\* the state process_block builds before it processes the data
ProcessBlockState(b) ==
    LET nb_centers_bound ==
          TruncAsUsize(FracTimes((1 + ILog2(b.nbdata_expected)) * b.k, b.gamma))
    IN  BmorStateNew(b.k, b.nbdata_expected, 0, b.gamma, nb_centers_bound)

\* faulty variant: on an empty registry the facility is created but the
\* explicit insertion of the weight is forgotten
AddDataOp_NoInsert(st, rank_id, data, weight, uu) ==
    IF Len(st.centers) <= 0
    THEN [state |-> [st EXCEPT !.centers =
                        FacilitiesInsert(@, FacilityNew(rank_id, data)),
                               !.nb_inserted = @ + 1,
                               !.absolute_weight = @ + weight],
          res |-> TRUE, exit |-> FALSE, panic |-> FALSE, draws |-> 0]
    ELSE Update(st, rank_id, data, weight, uu)

\* faulty variant: the test for an empty registry is left out and every item
\* goes to update
AddDataOp_AlwaysUpdate(st, rank_id, data, weight, uu) ==
    Update(st, rank_id, data, weight, uu)

\* Bmor::add_data with the draw uu (used only when the registry is not empty)
AddDataOp(st, rank_id, data, weight, uu) ==
    IF Len(st.centers) <= 0
    THEN [state |-> [st EXCEPT !.centers =
                        FacilitiesInsert(@, FacilityInsert(FacilityNew(rank_id, data),
                                                           weight, 0)),
                               !.nb_inserted = @ + 1,
                               !.absolute_weight = @ + weight],
          res |-> TRUE, exit |-> FALSE, panic |-> FALSE, draws |-> 0]
    ELSE Update(st, rank_id, data, weight, uu)

\* faulty variant: the recycled facility is given its rank in the registry as id
Snapshot_RankAsId(cs) ==
    [j \in 1..Len(cs) |-> [w |-> cs[j].weight, pt |-> cs[j].center, id |-> j - 1]]

\* faulty variant: the registry is recycled from its last facility to its first
Snapshot_Reversed(cs) ==
    [j \in 1..Len(cs) |-> [w  |-> cs[Len(cs) + 1 - j].weight,
                           pt |-> cs[Len(cs) + 1 - j].center,
                           id |-> cs[Len(cs) + 1 - j].d_rank]]

\* faulty variant: a recycled facility is given the weight of one point
Snapshot_UnitWeight(cs) ==
    [j \in 1..Len(cs) |-> [w |-> 1, pt |-> cs[j].center, id |-> cs[j].d_rank]]

\* the weighted data the restart makes of the registry
Snapshot(cs) ==
    [j \in 1..Len(cs) |-> [w |-> cs[j].weight, pt |-> cs[j].center, id |-> cs[j].d_rank]]

Top == stack[Len(stack)]
\* the item the innermost loop is about to treat
Cur == Top.data[Top.i]

\* weighted streams of n points, ids being the ranks 0 .. n-1
StreamsOfLen(n) ==
    { [j \in 1..n |-> [w |-> ws[j], pt |-> ps[j], id |-> j - 1]] :
        ws \in [1..n -> Weights], ps \in [1..n -> Coords] }

\* the variables of match_point and of Mettu-Plaxton, when they do not run
MatchIdle ==
    /\ dmax = 0
    /\ matched = [res |-> FALSE, scanned |-> 0]
    /\ mp_alpha = 1
    /\ mp_points = << >>
    /\ mp_i = 1

\* the variables of the registry checks, when BMOR runs
NearIdle ==
    /\ point = 0
    /\ nearest = [ok |-> FALSE, rank |-> -1, dist |-> INFINITY]
    /\ npc = "off"
    /\ MatchIdle

\* no earlier call of dispatch to compare with
NoFirstCall == [done |-> FALSE, centers |-> << >>, global_cost |-> 0]

DispIdle ==
    /\ dcall = "none"
    /\ dpc = "off"
    /\ d_data = << >>
    /\ d_weights = [some |-> FALSE, v |-> << >>]
    /\ d_labels = << >>
    /\ wpc = << >>
    /\ w_near = << >>
    /\ locks = << >>
    /\ held = << >>
    /\ scan_i = << >>
    /\ d_first = NoFirstCall
    /\ label_distribution = << >>
    /\ global_cost = 0

\* the variable of get_neighborhood_size, when it does not run
ScaleIdle ==
    scale = [pc |-> "off", data |-> << >>, nb_sample |-> 0, i |-> 0, k |-> 0,
             dvec |-> << >>, picked |-> {}, dist_2 |-> << >>]

\* A state as process_block builds it, and the top-level call of
\* process_weighted_block on a weighted stream.  process_block itself gives
\* every point the weight 1; process_weighted_block is public and takes any
\* weights.
Init ==
    /\ bmor \in BmorParams
    /\ state = ProcessBlockState(bmor)
    /\ u = <<0, 1>>
    /\ stream \in UNION { StreamsOfLen(n) : n \in 0..MaxPoints }
    /\ stack = << [data |-> stream, i |-> 1] >>
    /\ pc = "add"
    /\ add_res = TRUE
    /\ nb_draws = 0
    /\ submitted = << >>
    /\ centers = << >>
    /\ NearIdle
    /\ DispIdle
    /\ ScaleIdle

\* one iteration of the loop of process_weighted_block: add_data on the next item
AddData ==
    /\ pc = "add"
    /\ Top.i <= Len(Top.data)
    /\ \E uu \in (IF Len(state.centers) = 0 THEN {u} ELSE USamples) :
         LET r == AddDataOp(state, Cur.id, Cur.pt, Cur.w, uu)
         IN  /\ state' = r.state
             /\ add_res' = r.res
             /\ u' = uu
             /\ nb_draws' = nb_draws + r.draws
             /\ pc' = IF r.exit THEN "exit"
                      ELSE IF r.panic THEN "panic"
                      ELSE IF r.res THEN "add" ELSE "recycle"
    /\ submitted' = IF Len(stack) = 1 THEN Append(submitted, Cur.id) ELSE submitted
    /\ stack' = [stack EXCEPT ![Len(stack)].i = @ + 1]
    /\ UNCHANGED <<bmor, stream>>
    /\ UNCHANGED <<centers, nearVars, dispVars, scaleVars>>

\* add_data returned false: snapshot, reinit, and entry of the recursive call
Restart ==
    /\ pc = "recycle"
    /\ state.phase < MaxPhase
    /\ LET weighted_data == Snapshot(state.centers)
       IN  IF Len(weighted_data) = 0
           THEN /\ pc' = "panic"
                /\ UNCHANGED <<state, stack>>
           ELSE /\ state' = Reinit(state, bmor.beta * state.li,
                                   FracTimes(bmor.beta, state.phase_cost_upper))
                /\ stack' = Append(stack, [data |-> weighted_data, i |-> 1])
                /\ pc' = "add"
    /\ UNCHANGED <<bmor, u, stream, add_res, nb_draws, submitted>>
    /\ UNCHANGED <<centers, nearVars, dispVars, scaleVars>>

\* faulty variant: back from the recursive call, the caller's loop moves one
\* item further
Return_SkipNext ==
    /\ pc = "add"
    /\ Len(stack) > 0
    /\ Top.i > Len(Top.data)
    /\ stack' = IF Len(stack) = 1 THEN << >>
                ELSE [SubSeq(stack, 1, Len(stack) - 1)
                        EXCEPT ![Len(stack) - 1].i = @ + 1]
    /\ pc' = IF Len(stack) = 1 THEN "done" ELSE "add"
    /\ UNCHANGED <<bmor, state, u, stream, add_res, nb_draws, submitted>>
    /\ UNCHANGED <<centers, nearVars, dispVars, scaleVars>>

\* faulty variant: a call given no data fails, as the restart does on an
\* empty snapshot
Return_PanicOnEmpty ==
    /\ pc = "add"
    /\ Len(stack) > 0
    /\ Top.i > Len(Top.data)
    /\ IF Len(Top.data) = 0
       THEN pc' = "panic" /\ UNCHANGED stack
       ELSE /\ stack' = SubSeq(stack, 1, Len(stack) - 1)
            /\ pc' = IF Len(stack) = 1 THEN "done" ELSE "add"
    /\ UNCHANGED <<bmor, state, u, stream, add_res, nb_draws, submitted>>
    /\ UNCHANGED <<centers, nearVars, dispVars, scaleVars>>

\* the loop of the innermost call is over: it returns to its caller's loop
Return ==
    /\ pc = "add"
    /\ Len(stack) > 0
    /\ Top.i > Len(Top.data)
    /\ stack' = SubSeq(stack, 1, Len(stack) - 1)
    /\ pc' = IF Len(stack) = 1 THEN "done" ELSE "add"
    /\ UNCHANGED <<bmor, state, u, stream, add_res, nb_draws, submitted>>
    /\ UNCHANGED <<centers, nearVars, dispVars, scaleVars>>

Next == AddData \/ Restart \/ Return

Spec == Init /\ [][Next]_vars

----------------------------------------------------------------------------
(* BMOR from the construction of the engine: Bmor::new, then process_block. *)

\* parameters with k = 0, nbdata_expected = 0, beta < 1 or gamma < 1, one at
\* a time
BadParams ==
    { [k |-> 0, nbdata_expected |-> 2, beta |-> 2, gamma |-> <<1, 1>>],
      [k |-> 1, nbdata_expected |-> 0, beta |-> 2, gamma |-> <<1, 1>>],
      [k |-> 1, nbdata_expected |-> 2, beta |-> 0, gamma |-> <<1, 1>>],
      [k |-> 1, nbdata_expected |-> 2, beta |-> 2, gamma |-> <<0, 1>>] }

\* the value of the variables bmor and state before the engine and its
\* state exist
NoBmor == [k |-> 0, nbdata_expected |-> 0, beta |-> 0, gamma |-> <<0, 1>>]
NoState == BmorStateNew(0, 1, 0, <<0, 1>>, 0)

\* the weighted data process_block makes of its argument: weight 1, id the rank
UnitWeighted(ps) ==
    [j \in 1..Len(ps) |-> [w |-> 1, pt |-> ps[j], id |-> j - 1]]

InitBlock ==
    /\ bmor = NoBmor
    /\ state = NoState
    /\ u = <<0, 1>>
    /\ stream = << >>
    /\ stack = << >>
    /\ pc = "new"
    /\ add_res = TRUE
    /\ nb_draws = 0
    /\ submitted = << >>
    /\ centers = << >>
    /\ NearIdle
    /\ DispIdle
    /\ ScaleIdle

\* Bmor::new: the arguments are stored as they come
BmorNew ==
    /\ pc = "new"
    /\ \E b \in BmorParams \cup BadParams : bmor' = b
    /\ pc' = "engine"
    /\ UNCHANGED <<state, u, stream, stack, add_res, nb_draws, submitted>>
    /\ UNCHANGED <<centers, nearVars, dispVars, scaleVars>>

\* process_block up to the call of process_weighted_block; ilog2 panics on 0
ProcessBlock ==
    /\ pc = "engine"
    /\ IF bmor.nbdata_expected = 0
       THEN /\ pc' = "panic"
            /\ UNCHANGED <<state, stream, stack>>
       ELSE \E n \in 0..MaxPoints : \E ps \in [1..n -> Coords] :
              /\ state' = ProcessBlockState(bmor)
              /\ stream' = UnitWeighted(ps)
              /\ stack' = << [data |-> stream', i |-> 1] >>
              /\ pc' = "add"
    /\ UNCHANGED <<bmor, u, add_res, nb_draws, submitted>>
    /\ UNCHANGED <<centers, nearVars, dispVars, scaleVars>>

NextBlock == BmorNew \/ ProcessBlock \/ AddData \/ Restart \/ Return

SpecBlock == InitBlock /\ [][NextBlock]_vars

----------------------------------------------------------------------------
(* get_nearest_facility on a registry of its own. *)

\* the variables of BMOR, when a registry is used on its own
BmorIdle ==
    /\ bmor = [k |-> 1, nbdata_expected |-> 1, beta |-> 1, gamma |-> <<1, 1>>]
    /\ state = ProcessBlockState(bmor)
    /\ u = <<0, 1>>
    /\ stream = << >>
    /\ stack = << >>
    /\ pc = "off"
    /\ add_res = TRUE
    /\ nb_draws = 0
    /\ submitted = << >>

\* the sequences of n pairwise distinct coordinates
DistinctSeqs(n) ==
    { s \in [1..n -> Coords] : \A a, b \in 1..n : a # b => s[a] # s[b] }

\* registries of n facilities, facility j seeded by the point of id j - 1, each
\* carrying the weight and cost w0, c0 accumulated before
Registries(n, w0, c0) ==
    { [j \in 1..n |-> [d_rank |-> j - 1, center |-> s[j], weight |-> w0, cost |-> c0]] :
        s \in DistinctSeqs(n) }

\* the registries given to dispatch: empty; two facilities apart that carry
\* the weight 2 and the cost 1 from an earlier use; two fresh facilities at
\* the same distance of the point 1
DispatchRegistries ==
    { << >> } \cup
    { [j \in 1..2 |-> [d_rank |-> j - 1, center |-> r.c[j], weight |-> r.w, cost |-> r.cost]] :
        r \in {[c |-> <<0, 3>>, w |-> 2, cost |-> 1], [c |-> <<2, 0>>, w |-> 0, cost |-> 0]} }

InitNearest ==
    /\ BmorIdle
    /\ DispIdle
    /\ ScaleIdle
    /\ centers \in UNION { Registries(n, 0, 0) : n \in 0..MaxFacilities }
    /\ point \in Coords
    /\ nearest = [ok |-> FALSE, rank |-> -1, dist |-> INFINITY]
    /\ npc = "call"
    /\ MatchIdle

CallNearest ==
    /\ npc = "call"
    /\ nearest' = GetNearestFacility(centers, point)
    /\ npc' = "returned"
    /\ UNCHANGED <<centers, point, matchVars, bmorVars, dispVars, scaleVars>>

NextNearest == CallNearest

SpecNearest == InitNearest /\ [][NextNearest]_vars

\* the same call, the point being possibly NaN
InitNonFinite ==
    /\ BmorIdle
    /\ DispIdle
    /\ ScaleIdle
    /\ centers \in UNION { Registries(n, 0, 0) : n \in 0..MaxFacilities }
    /\ point \in Coords \cup {NAN}
    /\ nearest = [ok |-> FALSE, rank |-> -1, dist |-> INFINITY]
    /\ npc = "call"
    /\ MatchIdle

SpecNonFinite == InitNonFinite /\ [][NextNearest]_vars

----------------------------------------------------------------------------
(* match_point on a registry of its own. *)

\* the values of dmax
DMaxes == {0, 1, 2}

InitMatch ==
    /\ BmorIdle
    /\ DispIdle
    /\ ScaleIdle
    /\ centers \in UNION { Registries(n, 0, 0) : n \in 0..MaxFacilities }
    /\ point \in Coords
    /\ nearest = [ok |-> FALSE, rank |-> -1, dist |-> INFINITY]
    /\ npc = "call"
    /\ dmax \in DMaxes
    /\ matched = [res |-> FALSE, scanned |-> 0]
    /\ mp_alpha = 1
    /\ mp_points = << >>
    /\ mp_i = 1

CallMatch ==
    /\ npc = "call"
    /\ matched' = MatchPoint(centers, point, dmax)
    /\ npc' = "returned"
    /\ UNCHANGED <<centers, point, nearest, dmax, mp_alpha, mp_points, mp_i>>
    /\ UNCHANGED <<bmorVars, dispVars, scaleVars>>

NextMatch == CallMatch

SpecMatch == InitMatch /\ [][NextMatch]_vars

----------------------------------------------------------------------------
(* Mettu-Plaxton, second step: the points are visited by ascending radius   *)
(* and a point is opened as a facility when match_point finds no facility   *)
(* opened so far within alpha * r of it.  The engine is not among the       *)
(* sources; this step follows its description, on top of match_point and    *)
(* insert of the registry.                                                  *)

\* the values of alpha and of the radii
MpAlphas == {1, 2}
MpRadii == {1, 2}

\* the sequences of n points with their radii, by ascending radius
MpPointSeqs(n) ==
    { [j \in 1..n |-> [pt |-> ps[j], r |-> rs[j]]] :
        ps \in [1..n -> Coords],
        rs \in { q \in [1..n -> MpRadii] : \A a, b \in 1..n : a < b => q[a] <= q[b] } }

InitMP ==
    /\ BmorIdle
    /\ DispIdle
    /\ ScaleIdle
    /\ centers = << >>
    /\ point = 0
    /\ nearest = [ok |-> FALSE, rank |-> -1, dist |-> INFINITY]
    /\ npc = "mp"
    /\ dmax = 0
    /\ matched = [res |-> FALSE, scanned |-> 0]
    /\ mp_alpha \in MpAlphas
    /\ mp_points \in UNION { MpPointSeqs(n) : n \in 0..MaxPoints }
    /\ mp_i = 1

\* the visit of the next point
MpVisit ==
    /\ npc = "mp"
    /\ mp_i <= Len(mp_points)
    /\ point' = mp_points[mp_i].pt
    /\ dmax' = mp_alpha * mp_points[mp_i].r
    /\ matched' = MatchPoint(centers, point', dmax')
    /\ centers' = IF matched'.res THEN centers
                  ELSE FacilitiesInsert(centers, FacilityNew(mp_i - 1, point'))
    /\ mp_i' = mp_i + 1
    /\ UNCHANGED <<nearest, npc, mp_alpha, mp_points>>
    /\ UNCHANGED <<bmorVars, dispVars, scaleVars>>

\* every point was visited
MpEnd ==
    /\ npc = "mp"
    /\ mp_i > Len(mp_points)
    /\ npc' = "mp_done"
    /\ UNCHANGED <<centers, point, nearest, matchVars>>
    /\ UNCHANGED <<bmorVars, dispVars, scaleVars>>

NextMP == MpVisit \/ MpEnd

SpecMP == InitMP /\ [][NextMP]_vars

----------------------------------------------------------------------------
(* dispatch_data and dispatch_labels: one closure dispatch_i per item, run   *)
(* in parallel by into_par_iter().for_each.  A closure reads the centers     *)
(* (never written during a dispatch) in get_nearest_facility, then adds to   *)
(* the facility under its write lock, then (dispatch_labels) counts the      *)
(* label under the lock of the facility's histogram.  The write lock of a    *)
(* facility is taken in one step, in which the closure also loads the two    *)
(* counters, and the two counters are stored and the lock dropped in a       *)
(* second step.  Every other lock is taken and dropped in steps of their     *)
(* own too: in get_nearest_facility the read lock of facility i is taken at  *)
(* the head of iteration i and dropped at its end (the guard f_i is a local  *)
(* of the loop body); in dispatch_labels the lock of the histogram is taken  *)
(* after the block that holds the write lock is left.  A read lock waits     *)
(* for the writer of the facility, and the write lock for its readers and    *)
(* its writer.                                                               *)

\* items 1 .. n of the model are the items 0 .. n-1 of the code
ItemSeqs(S, n) == [1..n -> S]

\* faulty variant: the loop zeroes the cost and leaves the weight
ResetCounters_CostOnly(cs) ==
    [j \in 1..Len(cs) |-> [cs[j] EXCEPT !.cost = 0]]

\* the loop that zeroes cost and weight of every facility
ResetCounters(cs) ==
    [j \in 1..Len(cs) |-> [cs[j] EXCEPT !.cost = 0, !.weight = 0]]

\* the weight dispatch_data gives item i: weights[item], or 1
DispatchDataWeight(ws, i) ==
    IF ~ws.some THEN [ok |-> TRUE, w |-> 1]
    ELSE IF i > Len(ws.v) THEN [ok |-> FALSE, w |-> 0]
    ELSE [ok |-> TRUE, w |-> ws.v[i]]

\* the weight dispatch_labels gives item i whose nearest facility has rank
\* itemf: weights[itemf], or 1
DispatchLabelsWeight(ws, i, itemf) ==
    IF ~ws.some THEN [ok |-> TRUE, w |-> 1]
    ELSE IF itemf + 1 > Len(ws.v) THEN [ok |-> FALSE, w |-> 0]
    ELSE [ok |-> TRUE, w |-> ws.v[itemf + 1]]

\* the sum of the costs of the facilities 1 .. n, as the closing loop adds them
RECURSIVE SumCost(_, _)
SumCost(cs, n) == IF n = 0 THEN 0 ELSE SumCost(cs, n - 1) + cs[n].cost

\* what the two calls are given: a registry, possibly carrying weights and
\* costs of an earlier use, the points, the optional weights and the labels
\* (the items come in the order of their coordinates, the closures of the
\* parallel loop running in any order, and the label of the first item is
\* "a", the two labels being interchangeable)
InitDispatch ==
    /\ BmorIdle
    /\ NearIdle
    /\ ScaleIdle
    /\ centers \in DispatchRegistries
    /\ dcall \in {"dispatch_data", "dispatch_labels"}
    /\ dpc = "start"
    /\ \E n \in 0..MaxItems :
         /\ d_data \in { d \in ItemSeqs(DispatchCoords, n) :
                            \A i \in 1..(n - 1) : d[i] <= d[i + 1] }
         /\ d_weights \in {[some |-> FALSE, v |-> << >>]}
                            \cup { [some |-> TRUE, v |-> v] : v \in ItemSeqs(F32Weights, n) }
         /\ d_labels \in IF dcall = "dispatch_labels"
                         THEN { l \in ItemSeqs(Labels, n) : n > 0 => l[1] = "a" }
                         ELSE {<< >>}
    /\ wpc = << >>
    /\ w_near = << >>
    /\ locks = << >>
    /\ held = << >>
    /\ scan_i = << >>
    /\ d_first = NoFirstCall
    /\ label_distribution = << >>
    /\ global_cost = 0

\* dispatch_data up to the parallel loop
DispatchDataStart ==
    /\ dcall = "dispatch_data"
    /\ dpc = "start"
    /\ IF d_weights.some /\ Len(d_data) # Len(d_weights.v)
       THEN /\ dpc' = "panic"
            /\ UNCHANGED <<centers, wpc, w_near, locks, held, scan_i>>
       ELSE /\ centers' = ResetCounters(centers)
            /\ wpc' = [i \in 1..Len(d_data) |-> "nearest"]
            /\ w_near' = [i \in 1..Len(d_data) |->
                            [rank |-> -1, dist |-> INFINITY, weight |-> 0, cost_incr |-> 0,
                             old_weight |-> 0, old_cost |-> 0]]
            /\ locks' = [r \in 1..Len(centers) |-> 0]
            /\ held' = [i \in 1..Len(d_data) |-> {}]
            /\ scan_i' = [i \in 1..Len(d_data) |-> 0]
            /\ dpc' = "par"
    /\ UNCHANGED <<dcall, d_data, d_weights, d_labels, d_first, label_distribution,
                   global_cost>>
    /\ UNCHANGED <<bmorVars, nearVars, scaleVars>>

\* dispatch_labels up to the parallel loop
DispatchLabelsStart ==
    /\ dcall = "dispatch_labels"
    /\ dpc = "start"
    /\ IF Len(d_data) # Len(d_labels)
       THEN /\ dpc' = "panic"
            /\ UNCHANGED <<centers, wpc, w_near, locks, held, scan_i,
                           label_distribution>>
       ELSE /\ centers' = ResetCounters(centers)
            /\ label_distribution' = [r \in 1..Len(centers) |-> [l \in Labels |-> 0]]
            /\ wpc' = [i \in 1..Len(d_data) |-> "nearest"]
            /\ w_near' = [i \in 1..Len(d_data) |->
                            [rank |-> -1, dist |-> INFINITY, weight |-> 0, cost_incr |-> 0,
                             old_weight |-> 0, old_cost |-> 0]]
            /\ locks' = [r \in 1..Len(centers) |-> 0]
            /\ held' = [i \in 1..Len(d_data) |-> {}]
            /\ scan_i' = [i \in 1..Len(d_data) |-> 0]
            /\ dpc' = "par"
    /\ UNCHANGED <<dcall, d_data, d_weights, d_labels, d_first, global_cost>>
    /\ UNCHANGED <<bmorVars, nearVars, scaleVars>>

ReadLock(r) == [kind |-> "read", rank |-> r]
WriteLock(r) == [kind |-> "write", rank |-> r]
HistLock(r) == [kind |-> "hist", rank |-> r]

\* get_nearest_facility called by dispatch_i: the error on the empty
\* registry, which the closure unwraps, or the head of iteration scan_i
ScanAcquire(i) ==
    /\ dpc = "par"
    /\ wpc[i] = "nearest"
    /\ IF Len(centers) = 0
       THEN /\ wpc' = [wpc EXCEPT ![i] = "panic"]
            /\ UNCHANGED held
       ELSE /\ locks[scan_i[i] + 1] = 0
            /\ held' = [held EXCEPT ![i] = @ \cup {ReadLock(scan_i[i])}]
            /\ wpc' = [wpc EXCEPT ![i] = "reading"]
    /\ UNCHANGED <<centers, dcall, dpc, d_data, d_weights, d_labels, w_near, locks,
                   scan_i, d_first, label_distribution, global_cost>>
    /\ UNCHANGED <<bmorVars, nearVars, scaleVars>>

\* the running minimum after the body of iteration j of the loop, for item i
ScanStep(i, j) ==
    LET d_i == DistEval(centers[j + 1].center, d_data[i])
    IN  IF NearestKeeps(d_i, w_near[i].dist)
        THEN [dist |-> d_i, rank_f |-> j]
        ELSE [dist |-> w_near[i].dist, rank_f |-> w_near[i].rank]

\* what dispatch_i holds once get_nearest_facility has returned (rank, dist):
\* the weight and the cost of the item, or the panic of the weight lookup
ScanEnd(i, rank, dist) ==
    LET wt == IF dcall = "dispatch_data" THEN DispatchDataWeight(d_weights, i)
              ELSE DispatchLabelsWeight(d_weights, i, rank)
    IN  [pc   |-> IF wt.ok THEN "lock" ELSE "panic",
         near |-> [rank |-> rank, dist |-> dist, weight |-> wt.w,
                   cost_incr |-> dist * wt.w, old_weight |-> 0, old_cost |-> 0]]

\* faulty variant: the guards of the facilities read are kept until the
\* closure ends
ScanRelease_KeepGuard(i) ==
    /\ dpc = "par"
    /\ wpc[i] = "reading"
    /\ LET j == scan_i[i]
           m == ScanStep(i, j)
       IN  /\ scan_i' = [scan_i EXCEPT ![i] = j + 1]
           /\ UNCHANGED held
           /\ IF j + 1 < Len(centers)
              THEN /\ w_near' = [w_near EXCEPT ![i].dist = m.dist, ![i].rank = m.rank_f]
                   /\ wpc' = [wpc EXCEPT ![i] = "nearest"]
              ELSE LET e == ScanEnd(i, AsUsize(m.rank_f), m.dist)
                   IN  /\ w_near' = [w_near EXCEPT ![i] = e.near]
                       /\ wpc' = [wpc EXCEPT ![i] = e.pc]
    /\ UNCHANGED <<centers, dcall, dpc, d_data, d_weights, d_labels, locks,
                   d_first, label_distribution, global_cost>>
    /\ UNCHANGED <<bmorVars, nearVars, scaleVars>>

\* the body of iteration scan_i and its end, where the read lock is dropped;
\* after the last iteration the scan returns to dispatch_i
ScanRelease(i) ==
    /\ dpc = "par"
    /\ wpc[i] = "reading"
    /\ LET j == scan_i[i]
           m == ScanStep(i, j)
       IN  /\ scan_i' = [scan_i EXCEPT ![i] = j + 1]
           /\ held' = [held EXCEPT ![i] = @ \ {ReadLock(j)}]
           /\ IF j + 1 < Len(centers)
              THEN /\ w_near' = [w_near EXCEPT ![i].dist = m.dist, ![i].rank = m.rank_f]
                   /\ wpc' = [wpc EXCEPT ![i] = "nearest"]
              ELSE LET e == ScanEnd(i, AsUsize(m.rank_f), m.dist)
                   IN  /\ w_near' = [w_near EXCEPT ![i] = e.near]
                       /\ wpc' = [wpc EXCEPT ![i] = e.pc]
    /\ UNCHANGED <<centers, dcall, dpc, d_data, d_weights, d_labels, locks,
                   d_first, label_distribution, global_cost>>
    /\ UNCHANGED <<bmorVars, nearVars, scaleVars>>

\* faulty variant: the counters are loaded without waiting for the lock
WorkerLock_NoExclusion(i) ==
    /\ dpc = "par"
    /\ wpc[i] = "lock"
    /\ locks' = [locks EXCEPT ![w_near[i].rank + 1] = i]
    /\ held' = [held EXCEPT ![i] = @ \cup {[kind |-> "write", rank |-> w_near[i].rank]}]
    /\ w_near' = [w_near EXCEPT ![i].old_weight = centers[w_near[i].rank + 1].weight,
                                ![i].old_cost = centers[w_near[i].rank + 1].cost]
    /\ wpc' = [wpc EXCEPT ![i] = "update"]
    /\ UNCHANGED <<centers, dcall, dpc, d_data, d_weights, d_labels, scan_i, d_first,
                   label_distribution, global_cost>>
    /\ UNCHANGED <<bmorVars, nearVars, scaleVars>>

\* dispatch_i takes the write lock of its facility, once no other closure
\* holds it, and loads the counters it is about to add to
WorkerLock(i) ==
    /\ dpc = "par"
    /\ wpc[i] = "lock"
    /\ locks[w_near[i].rank + 1] = 0
    /\ \A j \in 1..Len(held) :
          [kind |-> "read", rank |-> w_near[i].rank] \notin held[j]
    /\ locks' = [locks EXCEPT ![w_near[i].rank + 1] = i]
    /\ held' = [held EXCEPT ![i] = @ \cup {[kind |-> "write", rank |-> w_near[i].rank]}]
    /\ w_near' = [w_near EXCEPT ![i].old_weight = centers[w_near[i].rank + 1].weight,
                                ![i].old_cost = centers[w_near[i].rank + 1].cost]
    /\ wpc' = [wpc EXCEPT ![i] = "update"]
    /\ UNCHANGED <<centers, dcall, dpc, d_data, d_weights, d_labels, scan_i, d_first,
                   label_distribution, global_cost>>
    /\ UNCHANGED <<bmorVars, nearVars, scaleVars>>

\* faulty variant: the section writes the sums it computed from the counters
\* as they were when the parallel loop began (zero), without the lock: the
\* additions of the other items are lost
WorkerUpdate_Overwrite(i) ==
    /\ dpc = "par"
    /\ wpc[i] = "update"
    /\ centers' = [centers EXCEPT ![w_near[i].rank + 1] =
                      [@ EXCEPT !.weight = w_near[i].weight,
                                !.cost = w_near[i].cost_incr]]
    /\ locks' = [locks EXCEPT ![w_near[i].rank + 1] = 0]
    /\ held' = [held EXCEPT ![i] = @ \ {[kind |-> "write", rank |-> w_near[i].rank]}]
    /\ wpc' = [wpc EXCEPT ![i] = IF dcall = "dispatch_labels" THEN "label" ELSE "done"]
    /\ UNCHANGED <<dcall, dpc, d_data, d_weights, d_labels, w_near, scan_i, d_first,
                   label_distribution, global_cost>>
    /\ UNCHANGED <<bmorVars, nearVars, scaleVars>>

\* faulty variant: the section also moves the center of the facility onto the item
WorkerUpdate_Recenter(i) ==
    /\ dpc = "par"
    /\ wpc[i] = "update"
    /\ centers' = [centers EXCEPT ![w_near[i].rank + 1] =
                      [@ EXCEPT !.weight = w_near[i].old_weight + w_near[i].weight,
                                !.cost = w_near[i].old_cost + w_near[i].cost_incr,
                                !.center = d_data[i]]]
    /\ locks' = [locks EXCEPT ![w_near[i].rank + 1] = 0]
    /\ held' = [held EXCEPT ![i] = @ \ {[kind |-> "write", rank |-> w_near[i].rank]}]
    /\ wpc' = [wpc EXCEPT ![i] = IF dcall = "dispatch_labels" THEN "label" ELSE "done"]
    /\ UNCHANGED <<dcall, dpc, d_data, d_weights, d_labels, w_near, scan_i, d_first,
                   label_distribution, global_cost>>
    /\ UNCHANGED <<bmorVars, nearVars, scaleVars>>

\* the section of dispatch_i under the write lock of the facility: the two
\* counters are stored, then the lock is dropped
WorkerUpdate(i) ==
    /\ dpc = "par"
    /\ wpc[i] = "update"
    /\ centers' = [centers EXCEPT ![w_near[i].rank + 1] =
                      [@ EXCEPT !.weight = w_near[i].old_weight + w_near[i].weight,
                                !.cost = w_near[i].old_cost + w_near[i].cost_incr]]
    /\ locks' = [locks EXCEPT ![w_near[i].rank + 1] = 0]
    /\ held' = [held EXCEPT ![i] = @ \ {[kind |-> "write", rank |-> w_near[i].rank]}]
    /\ wpc' = [wpc EXCEPT ![i] = IF dcall = "dispatch_labels" THEN "label" ELSE "done"]
    /\ UNCHANGED <<dcall, dpc, d_data, d_weights, d_labels, w_near, scan_i, d_first,
                   label_distribution, global_cost>>
    /\ UNCHANGED <<bmorVars, nearVars, scaleVars>>

\* dispatch_i (dispatch_labels) takes the lock of the histogram of its
\* facility, once no other closure holds it
LabelAcquire(i) ==
    /\ dpc = "par"
    /\ wpc[i] = "label"
    /\ \A j \in 1..Len(held) : HistLock(w_near[i].rank) \notin held[j]
    /\ held' = [held EXCEPT ![i] = @ \cup {HistLock(w_near[i].rank)}]
    /\ wpc' = [wpc EXCEPT ![i] = "labelling"]
    /\ UNCHANGED <<centers, dcall, dpc, d_data, d_weights, d_labels, w_near, locks,
                   scan_i, d_first, label_distribution, global_cost>>
    /\ UNCHANGED <<bmorVars, nearVars, scaleVars>>

\* faulty variant: the label is inserted with the count 1 whether or not the
\* histogram holds it already
LabelStore_InsertOnly(i) ==
    /\ dpc = "par"
    /\ wpc[i] = "labelling"
    /\ label_distribution' =
          [label_distribution EXCEPT ![w_near[i].rank + 1][d_labels[i]] = 1]
    /\ held' = [held EXCEPT ![i] = @ \ {HistLock(w_near[i].rank)}]
    /\ wpc' = [wpc EXCEPT ![i] = "done"]
    /\ UNCHANGED <<centers, dcall, dpc, d_data, d_weights, d_labels, w_near, locks,
                   scan_i, d_first, global_cost>>
    /\ UNCHANGED <<bmorVars, nearVars, scaleVars>>

\* the count of the label is brought up by one and the lock is dropped
LabelStore(i) ==
    /\ dpc = "par"
    /\ wpc[i] = "labelling"
    /\ label_distribution' =
          [label_distribution EXCEPT ![w_near[i].rank + 1][d_labels[i]] = @ + 1]
    /\ held' = [held EXCEPT ![i] = @ \ {HistLock(w_near[i].rank)}]
    /\ wpc' = [wpc EXCEPT ![i] = "done"]
    /\ UNCHANGED <<centers, dcall, dpc, d_data, d_weights, d_labels, w_near, locks,
                   scan_i, d_first, global_cost>>
    /\ UNCHANGED <<bmorVars, nearVars, scaleVars>>

\* for_each has returned
WorkersJoined == \A i \in 1..Len(wpc) : wpc[i] \in {"done", "panic"}

\* faulty variant: the costs are summed without waiting for the workers
DispatchDataEnd_NoJoin ==
    /\ dcall = "dispatch_data"
    /\ dpc = "par"
    /\ dpc' = "done"
    /\ global_cost' = SumCost(centers, Len(centers))
    /\ UNCHANGED <<centers, dcall, d_data, d_weights, d_labels, wpc, w_near, locks,
                   held, scan_i, d_first, label_distribution>>
    /\ UNCHANGED <<bmorVars, nearVars, scaleVars>>

\* dispatch_data after the parallel loop: the global cost it returns
DispatchDataEnd ==
    /\ dcall = "dispatch_data"
    /\ dpc = "par"
    /\ WorkersJoined
    /\ IF \E i \in 1..Len(wpc) : wpc[i] = "panic"
       THEN /\ dpc' = "panic"
            /\ UNCHANGED global_cost
       ELSE /\ dpc' = "done"
            /\ global_cost' = SumCost(centers, Len(centers))
    /\ UNCHANGED <<centers, dcall, d_data, d_weights, d_labels, wpc, w_near, locks,
                   held, scan_i, d_first, label_distribution>>
    /\ UNCHANGED <<bmorVars, nearVars, scaleVars>>

\* dispatch_labels after the parallel loop
DispatchLabelsEnd ==
    /\ dcall = "dispatch_labels"
    /\ dpc = "par"
    /\ WorkersJoined
    /\ IF \E i \in 1..Len(wpc) : wpc[i] = "panic"
       THEN /\ dpc' = "panic"
            /\ UNCHANGED global_cost
       ELSE /\ dpc' = "done"
            /\ global_cost' = SumCost(centers, Len(centers))
    /\ UNCHANGED <<centers, dcall, d_data, d_weights, d_labels, wpc, w_near, locks,
                   held, scan_i, d_first, label_distribution>>
    /\ UNCHANGED <<bmorVars, nearVars, scaleVars>>

NextDispatch ==
    \/ DispatchDataStart
    \/ DispatchLabelsStart
    \/ \E i \in 1..Len(wpc) : ScanAcquire(i)
    \/ \E i \in 1..Len(wpc) : ScanRelease(i)
    \/ \E i \in 1..Len(wpc) : WorkerLock(i)
    \/ \E i \in 1..Len(wpc) : WorkerUpdate(i)
    \/ \E i \in 1..Len(wpc) : LabelAcquire(i)
    \/ \E i \in 1..Len(wpc) : LabelStore(i)
    \/ DispatchDataEnd
    \/ DispatchLabelsEnd

SpecDispatch == InitDispatch /\ [][NextDispatch]_vars

----------------------------------------------------------------------------
(* The two calls run fairly, on fewer arguments. *)

\* what the two calls are given here: the empty registry or two fresh
\* facilities, items placed on either of them, one unit weight per item or
\* no weights, one label
InitLocks ==
    /\ BmorIdle
    /\ NearIdle
    /\ ScaleIdle
    /\ centers \in { << >>,
                      << [d_rank |-> 0, center |-> 0, weight |-> 0, cost |-> 0],
                         [d_rank |-> 1, center |-> 3, weight |-> 0, cost |-> 0] >> }
    /\ dcall \in {"dispatch_data", "dispatch_labels"}
    /\ dpc = "start"
    /\ \E n \in 0..MaxItems :
         /\ d_data \in ItemSeqs({0, 3}, n)
         /\ d_weights \in {[some |-> FALSE, v |-> << >>],
                            [some |-> TRUE, v |-> [j \in 1..n |-> 1]]}
         /\ d_labels = IF dcall = "dispatch_labels" THEN [j \in 1..n |-> "a"] ELSE << >>
    /\ wpc = << >>
    /\ w_near = << >>
    /\ locks = << >>
    /\ held = << >>
    /\ scan_i = << >>
    /\ d_first = NoFirstCall
    /\ label_distribution = << >>
    /\ global_cost = 0

\* the thread pool runs every closure, and a thread that can take a step
\* takes it
SpecLocksFair == InitLocks /\ [][NextDispatch]_vars /\ WF_vars(NextDispatch)

----------------------------------------------------------------------------
\* The call has returned and the caller makes it again, on the registry as
\* the call left it and with the same arguments; what the first call left
\* and returned is kept aside, and the locals of the first call are gone.
DispatchAgain ==
    /\ dpc = "done"
    /\ ~d_first.done
    /\ d_first' = [done |-> TRUE, centers |-> centers, global_cost |-> global_cost]
    /\ dpc' = "start"
    /\ wpc' = << >>
    /\ w_near' = << >>
    /\ locks' = << >>
    /\ held' = << >>
    /\ scan_i' = << >>
    /\ label_distribution' = << >>
    /\ global_cost' = 0
    /\ UNCHANGED <<centers, dcall, d_data, d_weights, d_labels>>
    /\ UNCHANGED <<bmorVars, nearVars, scaleVars>>

NextTwice ==
    \/ DispatchDataStart
    \/ DispatchLabelsStart
    \/ \E i \in 1..Len(wpc) : ScanAcquire(i)
    \/ \E i \in 1..Len(wpc) : ScanRelease(i)
    \/ \E i \in 1..Len(wpc) : WorkerLock(i)
    \/ \E i \in 1..Len(wpc) : WorkerUpdate(i)
    \/ \E i \in 1..Len(wpc) : LabelAcquire(i)
    \/ \E i \in 1..Len(wpc) : LabelStore(i)
    \/ DispatchDataEnd
    \/ DispatchLabelsEnd
    \/ DispatchAgain

\* one call of dispatch_data or dispatch_labels, then possibly the same call again
SpecTwice == InitDispatch /\ [][NextTwice]_vars

----------------------------------------------------------------------------
(* get_neighborhood_size (src/src/scale.rs).  The anchors 0 .. nb_sample - 1 *)
(* are explored by a parallel map; an exploration has its own rng and its    *)
(* own dvec and shares nothing with the others, so the model runs them one   *)
(* after the other.  A sample of the rng is any index of 0 .. nbdata - 1.    *)

\* 2 to the power e
RECURSIVE Pow2(_)
Pow2(e) == IF e = 0 THEN 1 ELSE 2 * Pow2(e - 1)

\* the integer part of the square root of x, for x < 2^30, searched between
\* lo and hi with lo^2 <= x < hi^2
RECURSIVE FloorSqrt(_, _, _)
FloorSqrt(x, lo, hi) ==
    IF hi - lo <= 1 THEN lo
    ELSE LET mid == (lo + hi) \div 2
         IN  IF mid * mid <= x THEN FloorSqrt(x, mid, hi) ELSE FloorSqrt(x, lo, mid)

\* n as f32, for n < 2^30: a usize of more than 24 significant bits is
\* rounded to the nearest f32, the even one of two equally near
F32OfUsize(n) ==
    IF n < 16777216 THEN n
    ELSE LET s   == Pow2(ILog2(n) - 23)
             lo  == (n \div s) * s
             rem == n - lo
         IN  IF 2 * rem < s THEN lo
             ELSE IF 2 * rem > s THEN lo + s
             ELSE IF (lo \div s) % 2 = 0 THEN lo ELSE lo + s

\* x.sqrt() of an f32 x of integer value, truncated: the root is rounded to
\* the nearest f32, which is r + 1, r being its integer part, when the root
\* is within half the spacing of the f32s below r + 1, that is when
\* ((r + 1)^2 - x) * 2^(24 - k) <= 2 (r + 1) - 1 with 2^k <= r < 2^(k + 1)
SqrtTruncF32(x) ==
    LET r == FloorSqrt(x, 0, 32768)
    IN  IF r = 0 THEN 0
        ELSE IF ILog2(r) <= 24
                /\ (r + 1) * (r + 1) - x <= (2 * (r + 1) - 1) \div Pow2(24 - ILog2(r))
             THEN r + 1
             ELSE r

\* (n as f32).sqrt().trunc() as usize
ISqrt(n) == SqrtTruncF32(F32OfUsize(n))

\* s with x put before the first element greater than x
RECURSIVE InsertSorted(_, _)
InsertSorted(s, x) ==
    IF Len(s) = 0 THEN <<x>>
    ELSE IF x <= Head(s) THEN <<x>> \o s
    ELSE <<Head(s)>> \o InsertSorted(Tail(s), x)

\* dvec.sort_unstable_by(partial_cmp)
RECURSIVE SortUnstable(_)
SortUnstable(s) ==
    IF Len(s) = 0 THEN << >> ELSE InsertSorted(SortUnstable(Tail(s)), Head(s))

InitScale ==
    /\ BmorIdle
    /\ NearIdle
    /\ DispIdle
    /\ centers = << >>
    /\ \E n \in 0..MaxData : \E ps \in [1..n -> Coords] :
         scale = [pc |-> "call", data |-> ps, nb_sample |-> 0, i |-> 0, k |-> 0,
                  dvec |-> << >>, picked |-> {}, dist_2 |-> << >>]

\* up to the parallel map: Uniform::new(0, nbdata) panics on an empty range
ScaleStart ==
    /\ scale.pc = "call"
    /\ scale' = IF Len(scale.data) = 0
                THEN [scale EXCEPT !.pc = "panic"]
                ELSE [scale EXCEPT !.nb_sample = ISqrt(Len(scale.data)),
                                   !.pc = "explore"]
    /\ UNCHANGED <<centers, bmorVars, nearVars, dispVars>>

\* explore(i), one turn of the sampling loop: the index j is drawn, and the
\* distance of the anchor to data[j] is kept unless j is the anchor, in
\* which case the loop draws again
ScaleSample ==
    /\ scale.pc = "explore"
    /\ scale.i < scale.nb_sample
    /\ scale.k < scale.nb_sample
    /\ \E j \in 0..(Len(scale.data) - 1) :
         scale' = IF j # scale.i
                  THEN [scale EXCEPT
                          !.dvec = Append(@, DistEval(scale.data[scale.i + 1],
                                                      scale.data[j + 1])),
                          !.picked = @ \cup {j},
                          !.k = @ + 1]
                  ELSE scale
    /\ UNCHANGED <<centers, bmorVars, nearVars, dispVars>>

\* explore(i) after the sampling: the sort, then (dvec[0], dvec[1]); the
\* index 1 is out of range when dvec holds one distance
ScaleRead ==
    /\ scale.pc = "explore"
    /\ scale.i < scale.nb_sample
    /\ scale.k = scale.nb_sample
    /\ LET sorted == SortUnstable(scale.dvec)
       IN  scale' = IF Len(sorted) < 2
                    THEN [scale EXCEPT !.dvec = sorted, !.pc = "panic"]
                    ELSE [scale EXCEPT !.dist_2 = Append(@, <<sorted[1], sorted[2]>>),
                                       !.dvec = << >>,
                                       !.picked = {},
                                       !.k = 0,
                                       !.i = @ + 1]
    /\ UNCHANGED <<centers, bmorVars, nearVars, dispVars>>

\* every anchor was explored: the sketches are filled and q2_dist returned
ScaleReturn ==
    /\ scale.pc = "explore"
    /\ scale.i = scale.nb_sample
    /\ scale' = [scale EXCEPT !.pc = "returned"]
    /\ UNCHANGED <<centers, bmorVars, nearVars, dispVars>>

NextScale == ScaleStart \/ ScaleSample \/ ScaleRead \/ ScaleReturn

SpecScale == InitScale /\ [][NextScale]_vars

----------------------------------------------------------------------------
(* Properties of BMOR (specification Spec). *)

\* the next step is add_data on the item Cur with a registry that is not
\* empty, that is a call of BmorState::update
AtUpdate ==
    /\ pc = "add"
    /\ Len(stack) > 0
    /\ Top.i <= Len(Top.data)
    /\ Len(state.centers) > 0

\* distance of the item Cur to its nearest facility, and the rank of the
\* facility, as update finds them
CurDist == GetNearestFacility(state.centers, Cur.pt).dist
CurNearest == GetNearestFacility(state.centers, Cur.pt).rank

\* the draw made by the step satisfies u < weight * d * onePlusLogN / L
DrawOpens == u'[1] * state.li < Cur.w * CurDist * state.oneplogn * u'[2]

NonNegStream == \A j \in 1..Len(stream) : stream[j].w >= 0

\* C1: whenever a point is about to be processed or processing is over, the
\* registry holds at most facility_bound facilities; a registry above the
\* bound exists only as the outcome of an update, and the step that follows
\* it is the phase restart: the registry is emptied and phase incremented.
C1_BoundOrRestart ==
    /\ [](pc # "recycle" => Len(state.centers) <= state.facility_bound)
    /\ [][Len(state.centers) > state.facility_bound
            => /\ pc = "recycle"
               /\ state'.centers = << >>
               /\ state'.phase = state.phase + 1
               /\ pc' = "add"]_vars

\* a second overflow of the registry: an update of a phase entered by a
\* restart has left more than facility_bound facilities
C1_Witness ==
    /\ pc = "recycle"
    /\ state.phase >= 1
    /\ Len(state.centers) > state.facility_bound

\* C2: when the processing of a non-empty stream of non-negative weights has
\* returned, the registry is within facility_bound and total_cost within
\* phase_cost_upper, whatever restarts and draws there were.
C2_FinalWithinBudget ==
    (pc = "done" /\ Len(stream) >= 1 /\ NonNegStream)
        => /\ Len(state.centers) <= state.facility_bound
           /\ ~FracLess(state.phase_cost_upper, <<state.total_cost, 1>>)

\* processing has returned after restarts, with a positive cost accumulated
C2_Witness ==
    /\ pc = "done"
    /\ Len(stream) >= 1
    /\ NonNegStream
    /\ state.phase >= 2
    /\ state.total_cost > 0

\* C8: an update whose draw satisfies u < weight * d * onePlusLogN / L appends
\* a facility with the id and center of the point, the weight of the point and
\* cost 0, and leaves total_cost as it was.
C8_OpenedFacilityCostZero ==
    [][(AtUpdate /\ DrawOpens)
         => /\ state'.centers =
                  Append(state.centers,
                         [d_rank |-> Cur.id, center |-> Cur.pt,
                          weight |-> Cur.w, cost |-> 0])
            /\ state'.total_cost = state.total_cost]_vars

\* the registry after an update that opened no facility: the nearest
\* facility gains dw in weight and dc in cost, nothing else changes
MergedInto(dw, dc) ==
    /\ Len(state'.centers) = Len(state.centers)
    /\ \A j \in 1..Len(state.centers) :
         IF j = CurNearest + 1
         THEN state'.centers[j] =
                 [state.centers[j] EXCEPT !.weight = @ + dw, !.cost = @ + dc]
         ELSE state'.centers[j] = state.centers[j]

\* C9 as stated: an update that opens no facility adds weight to the weight of
\* the nearest facility, weight * d to its cost, and the same weight * d to
\* total_cost; the registry length and every other facility are unchanged.
C9_MergeAddsSameToTotal ==
    [][(AtUpdate /\ ~DrawOpens)
         => /\ MergedInto(Cur.w, Cur.w * CurDist)
            /\ state'.total_cost = state.total_cost + Cur.w * CurDist]_vars

\* C9 amended: an update that opens no facility adds weight to the weight of
\* the nearest facility and weight * d to its cost, and adds |weight| * d to
\* total_cost; the registry length and every other facility are unchanged.
C9_MergeAddsAbsToTotal ==
    [][(AtUpdate /\ ~DrawOpens)
         => /\ MergedInto(Cur.w, Cur.w * CurDist)
            /\ state'.total_cost = state.total_cost + Abs(Cur.w) * CurDist]_vars

\* a point of negative weight has been attributed to a facility at a
\* positive distance
C9_Witness ==
    /\ state.total_cost > 0
    /\ \E j \in 1..Len(state.centers) : state.centers[j].cost < 0

\* C10: update returns false iff, the point applied, total_cost is above
\* phase_cost_upper or the registry above facility_bound; otherwise true.
C10_UpdateReturn ==
    [][AtUpdate
         => (add_res' = ~(\/ FracLess(state'.phase_cost_upper, <<state'.total_cost, 1>>)
                          \/ Len(state'.centers) > state'.facility_bound))]_vars

\* update has returned false for the cost alone
C10_Witness ==
    /\ pc = "recycle"
    /\ ~add_res
    /\ FracLess(state.phase_cost_upper, <<state.total_cost, 1>>)
    /\ Len(state.centers) <= state.facility_bound

----------------------------------------------------------------------------
(* Properties of get_nearest_facility (specification SpecNearest). *)

\* distance of the point to the facility of rank r
DistTo(r) == DistEval(centers[r + 1].center, point)

Ranks == 0..(Len(centers) - 1)

\* the ranks whose facility is at the least distance of the point
NearestRanks == { r \in Ranks : \A q \in Ranks : DistTo(r) <= DistTo(q) }

\* C3: on a non-empty registry the rank returned is the first (lowest) of the
\* ranks at the least distance of the point.
C3_FirstRankWins ==
    (npc = "returned" /\ Len(centers) > 0)
        => /\ nearest.ok
           /\ nearest.rank \in NearestRanks
           /\ \A r \in NearestRanks : nearest.rank <= r

\* C4: on a non-empty registry the call returns (rank, d) with rank < len, d the
\* distance of the point to the facility of that rank, and d at most the
\* distance of the point to any facility.
C4_NearestIsMinimal ==
    (npc = "returned" /\ Len(centers) > 0)
        => /\ nearest.ok
           /\ nearest.rank \in Ranks
           /\ nearest.dist = DistTo(nearest.rank)
           /\ \A q \in Ranks : nearest.dist <= DistTo(q)

\* the call has returned on a registry whose facilities are at different
\* distances of the point, the nearest being neither the first nor the last
C4_Witness ==
    /\ npc = "returned"
    /\ Len(centers) >= 3
    /\ nearest.ok
    /\ nearest.rank = 1
    /\ \A q \in Ranks \ {1} : DistTo(q) > nearest.dist

----------------------------------------------------------------------------
(* Properties of dispatch (specification SpecDispatch). *)

\* the weight of item i as the caller gave it: weights[i], or one unit
InputWeight(i) == IF d_weights.some THEN d_weights.v[i] ELSE 1

RECURSIVE SumInputWeights(_)
SumInputWeights(n) == IF n = 0 THEN 0 ELSE SumInputWeights(n - 1) + InputWeight(n)

\* the items whose nearest facility has rank r
ItemsOf(r) ==
    { i \in 1..Len(d_data) : GetNearestFacility(centers, d_data[i]).rank = r }

\* the cost item i brings: its weight times the distance to its nearest facility
InputCost(i) == InputWeight(i) * GetNearestFacility(centers, d_data[i]).dist

RECURSIVE InputWeightOver(_)
InputWeightOver(S) ==
    IF S = {} THEN 0
    ELSE LET x == CHOOSE y \in S : TRUE IN InputWeight(x) + InputWeightOver(S \ {x})

RECURSIVE InputCostOver(_)
InputCostOver(S) ==
    IF S = {} THEN 0
    ELSE LET x == CHOOSE y \in S : TRUE IN InputCost(x) + InputCostOver(S \ {x})

RECURSIVE FacilityWeights(_)
FacilityWeights(n) == IF n = 0 THEN 0 ELSE FacilityWeights(n - 1) + centers[n].weight

RECURSIVE FacilityCosts(_)
FacilityCosts(n) == IF n = 0 THEN 0 ELSE FacilityCosts(n - 1) + centers[n].cost

\* C5: after dispatch_data on a non-empty registry, whatever the interleaving
\* of the workers, the facility weights sum to the input weights (one unit per
\* point when no weights are given).
C5_WeightConserved ==
    (dcall = "dispatch_data" /\ dpc = "done" /\ Len(centers) > 0)
        => FacilityWeights(Len(centers)) = SumInputWeights(Len(d_data))

\* dispatch_data has returned on a non-empty registry, given two points of
\* different weights
C5_Witness ==
    /\ dcall = "dispatch_data"
    /\ dpc = "done"
    /\ Len(centers) > 0
    /\ d_weights.some
    /\ Len(d_data) >= 2
    /\ d_weights.v[1] # d_weights.v[2]
    /\ FacilityWeights(Len(centers)) = SumInputWeights(Len(d_data))

\* C6: the value dispatch_data returns is the sum of the cost fields of the
\* facilities as they stand at the return, every worker having finished.
C6_GlobalCostIsSum ==
    (dcall = "dispatch_data" /\ dpc = "done")
        => /\ \A i \in 1..Len(wpc) : wpc[i] = "done"
           /\ global_cost = FacilityCosts(Len(centers))

\* dispatch_data has returned a positive cost carried by two facilities
C6_Witness ==
    /\ dcall = "dispatch_data"
    /\ dpc = "done"
    /\ global_cost > 0
    /\ Len(centers) >= 2
    /\ centers[1].cost > 0
    /\ centers[2].cost > 0

\* C7: dispatch_labels leaves in every facility the weight and the cost
\* dispatch_data accumulates on the same points and weights: the weights[i]
\* and weights[i] * distance of the items i whose nearest facility it is.
C7_LabelsAccumulateAsDispatch ==
    (dcall = "dispatch_labels" /\ dpc = "done")
        => \A r \in Ranks :
             /\ centers[r + 1].weight = InputWeightOver(ItemsOf(r))
             /\ centers[r + 1].cost = InputCostOver(ItemsOf(r))

----------------------------------------------------------------------------
(* Claims C11 .. C20 *)

\* the engine was given k >= 1, nbdata_expected >= 1, beta >= 1, gamma >= 1
ValidParams ==
    /\ bmor.k >= 1
    /\ bmor.nbdata_expected >= 1
    /\ bmor.beta >= 1
    /\ ~FracLess(bmor.gamma, <<1, 1>>)

\* add_data is about to treat the item Cur on an empty registry
AtEmptyAdd ==
    /\ pc = "add"
    /\ Len(stack) > 0
    /\ Top.i <= Len(Top.data)
    /\ Len(state.centers) = 0

\* C11: on an empty registry add_data opens a facility at the point with the
\* given weight and cost 0 and returns true, takes no sample from the rng
\* and goes on to the next item whatever the budget; a one-point input ends
\* with exactly one facility that carries the weight of the point.
C11_EmptyRegistryOpens ==
    /\ [][AtEmptyAdd
            => /\ state'.centers = << [d_rank |-> Cur.id, center |-> Cur.pt,
                                       weight |-> Cur.w, cost |-> 0] >>
               /\ add_res' = TRUE
               /\ pc' = "add"
               /\ nb_draws' = nb_draws
               /\ u' = u
               /\ state'.total_cost = state.total_cost]_vars
    /\ [](pc = "done" /\ Len(stream) = 1
            => state.centers = << [d_rank |-> stream[1].id, center |-> stream[1].pt,
                                  weight |-> stream[1].w, cost |-> 0] >>)

\* a one-point stream of weight -1 has been processed; no sample was taken
C11_Witness ==
    /\ pc = "done"
    /\ Len(stream) = 1
    /\ stream[1].w = -1
    /\ Len(state.centers) = 1
    /\ state.centers[1].weight = -1
    /\ nb_draws = 0

\* the sum of the absolute values of the weights of the first n stream items
RECURSIVE SumAbsWeights(_)
SumAbsWeights(n) ==
    IF n = 0 THEN 0 ELSE SumAbsWeights(n - 1) + Abs(stream[n].w)

\* C12: once the weighted stream is processed, restarts included,
\* absolute_weight is the sum of the absolute values of the input weights;
\* every add_data, the one on an empty registry included, adds |weight|.
C12_AbsWeightIsSumOfAbs ==
    /\ [](pc = "done" => state.absolute_weight = SumAbsWeights(Len(stream)))
    /\ [][pc = "add" /\ Len(stack) > 0 /\ Top.i <= Len(Top.data)
            => state'.absolute_weight = state.absolute_weight + Abs(Cur.w)]_vars

\* C13 as stated: the reinit of a phase restart leaves the registry empty,
\* sets absolute_weight, total_cost and nb_inserted to zero and increments
\* phase by exactly one.
C13_ReinitZeroesAggregates ==
    [][pc = "recycle" /\ pc' = "add"
         => /\ state'.centers = << >>
            /\ state'.absolute_weight = 0
            /\ state'.total_cost = 0
            /\ state'.nb_inserted = 0
            /\ state'.phase = state.phase + 1]_vars

\* C13 amended: the reinit of a phase restart leaves the registry empty,
\* sets absolute_weight and total_cost to zero, increments phase by exactly
\* one, and leaves nb_inserted, the count of insertions over all phases, as
\* it was.
C13_ReinitKeepsInserted ==
    [][pc = "recycle" /\ pc' = "add"
         => /\ state'.centers = << >>
            /\ state'.absolute_weight = 0
            /\ state'.total_cost = 0
            /\ state'.nb_inserted = state.nb_inserted
            /\ state'.phase = state.phase + 1]_vars

\* the state a restart leaves at the entry of the recursive call: empty
\* registry, aggregates at zero, the insertions of the past phase still counted
C13_Witness ==
    /\ pc = "add"
    /\ Len(stack) = 2
    /\ Top.i = 1
    /\ state.centers = << >>
    /\ state.phase = 1
    /\ state.absolute_weight = 0
    /\ state.nb_inserted >= 2

\* b to the power n
RECURSIVE Pow(_, _)
Pow(b, n) == IF n = 0 THEN 1 ELSE b * Pow(b, n - 1)

\* C14: in every state of a run on a state built by process_block,
\* li = beta^phase and phase_cost_upper = gamma * beta^phase; a restart
\* multiplies li and phase_cost_upper by beta and adds one to phase, and no
\* other step changes li, phase_cost_upper or phase.
C14_PhaseScaling ==
    /\ [](/\ state.li = Pow(bmor.beta, state.phase)
          /\ FracEq(state.phase_cost_upper,
                    FracTimes(Pow(bmor.beta, state.phase), bmor.gamma)))
    /\ [][IF pc = "recycle" /\ pc' = "add"
          THEN /\ state'.li = bmor.beta * state.li
               /\ FracEq(state'.phase_cost_upper,
                         FracTimes(bmor.beta, state.phase_cost_upper))
               /\ state'.phase = state.phase + 1
          ELSE /\ state'.li = state.li
               /\ FracEq(state'.phase_cost_upper, state.phase_cost_upper)
               /\ state'.phase = state.phase]_vars

\* two restarts with beta = 2 have brought li and phase_cost_upper to 4
C14_Witness ==
    /\ bmor.beta = 2
    /\ FracEq(bmor.gamma, <<1, 1>>)
    /\ state.phase = 2
    /\ state.li = 4
    /\ FracEq(state.phase_cost_upper, <<4, 1>>)

\* the ids of the first n stream items
StreamIds(n) == [j \in 1..n |-> stream[j].id]

\* C15: the stream is consumed in order and each of its points is passed to
\* add_data exactly once: every submission of the top-level loop is that of
\* the stream item following the last one submitted, the recursive calls of
\* a restart submit no stream item, and at the end all were submitted.
C15_EachPointOnceInOrder ==
    /\ [][submitted' # submitted
            => /\ Len(stack) = 1
               /\ Len(submitted) < Len(stream)
               /\ submitted' = Append(submitted, stream[Len(submitted) + 1].id)]_vars
    /\ [][pc = "add" /\ Len(stack) = 1 /\ Top.i <= Len(Top.data)
            => submitted' # submitted]_vars
    /\ [](pc = "done" => submitted = StreamIds(Len(stream)))

\* a restart on one of the first two points of a three-point stream is over
\* and the top-level loop is about to treat the third point
C15_Witness ==
    /\ pc = "add"
    /\ Len(stack) = 1
    /\ Len(stream) = 3
    /\ state.phase >= 1
    /\ stack[1].i = 3
    /\ submitted = <<0, 1>>

\* the stream holds N >= 1 points at the same position, each of weight 1
IdenticalUnitPoints ==
    /\ Len(stream) >= 1
    /\ \A j \in 1..Len(stream) : stream[j].pt = stream[1].pt /\ stream[j].w = 1

\* C16: process_block on N >= 1 identical points ends, whatever the draws,
\* with exactly one facility, of weight N and cost 0, at the first point,
\* with total_cost 0 and in phase 0.
C16_IdenticalPointsOneFacility ==
    pc = "done" /\ ValidParams /\ IdenticalUnitPoints
        => /\ state.centers = << [d_rank |-> 0, center |-> stream[1].pt,
                                  weight |-> Len(stream), cost |-> 0] >>
           /\ state.total_cost = 0
           /\ state.phase = 0

\* three identical points have been processed, a draw taken for the second
\* and for the third
C16_Witness ==
    /\ pc = "done"
    /\ ValidParams
    /\ IdenticalUnitPoints
    /\ Len(stream) = 3
    /\ nb_draws = 2
    /\ u = <<3, 4>>
    /\ state.centers[1].weight = 3

\* C18: an engine given beta < 1, gamma < 1, k = 0 or nbdata_expected = 0 is
\* rejected at construction with a parameter error: no state is created, no
\* point is processed and nothing panics, so past the call of Bmor::new such
\* an engine is nowhere but at the rejection.
C18_BadParamsRejected ==
    (pc # "new" /\ ~ValidParams) => pc = "rejected"

\* C19: get_nearest_facility on an empty registry returns an error, with no
\* rank and without a panic, and leaves the registry as it was.
C19_NearestOnEmptyIsError ==
    [][npc = "call" /\ Len(centers) = 0
         => /\ npc' = "returned"
            /\ nearest'.ok = FALSE
            /\ nearest'.rank = -1
            /\ centers' = centers]_vars

\* get_nearest_facility has returned its error on the empty registry
C19_Witness ==
    /\ npc = "returned"
    /\ Len(centers) = 0
    /\ nearest.ok = FALSE

\* process_block was given valid parameters and no point
AtEmptyBlock ==
    /\ pc \notin {"new", "engine"}
    /\ ValidParams
    /\ Len(stream) = 0

\* C20: process_block on zero points, the parameters being valid, returns a
\* state with an empty registry in phase 0: it neither restarts nor fails,
\* and nothing is inserted or drawn on the way.
C20_EmptyInputEmptyState ==
    /\ [](AtEmptyBlock
            => /\ pc \in {"add", "done"}
               /\ state.centers = << >>
               /\ state.phase = 0
               /\ state.nb_inserted = 0
               /\ nb_draws = 0)
    /\ [][AtEmptyBlock /\ pc = "add" => pc' = "done"]_vars

\* process_block has returned on zero points
C20_Witness ==
    /\ pc = "done"
    /\ ValidParams
    /\ Len(stream) = 0
    /\ stack = << >>
    /\ state.centers = << >>
    /\ state.phase = 0

----------------------------------------------------------------------------
(* Claims C21 .. C30 *)

\* C21: a non-finite distance met by get_nearest_facility, on behalf of
\* dispatch or of the update of BMOR, is reported as an error of the call,
\* and the call never returns a rank outside 0 .. len - 1 because of it.
C21_NonFiniteReported ==
    /\ [][npc = "call" /\ Len(centers) > 0 /\ point = NAN
            => nearest'.ok = FALSE]_vars
    /\ [](npc = "returned" /\ nearest.ok
            => nearest.rank \in 0..(Len(centers) - 1))

\* the ids of the stream are pairwise distinct
DistinctStreamIds ==
    \A a, b \in 1..Len(stream) : a # b => stream[a].id # stream[b].id

\* the stream holds an item of this id
InStream(id) == \E j \in 1..Len(stream) : stream[j].id = id

\* the place in the stream of the item of this id
StreamPos(id) == CHOOSE j \in 1..Len(stream) : stream[j].id = id

\* C22: the ids of the stream being pairwise distinct, in every state, after
\* any number of restarts too, no two facilities of the registry have the
\* same d_rank and the d_ranks in rank order are a subsequence of the ids of
\* the stream.
C22_IdsDistinctInArrivalOrder ==
    DistinctStreamIds
        => /\ \A r \in 1..Len(state.centers) : InStream(state.centers[r].d_rank)
           /\ \A r, q \in 1..Len(state.centers) :
                  r < q => /\ state.centers[r].d_rank # state.centers[q].d_rank
                           /\ StreamPos(state.centers[r].d_rank)
                                 < StreamPos(state.centers[q].d_rank)

\* after two restarts the registry holds the facilities of the first and of
\* the third point, in that order
C22_Witness ==
    /\ state.phase >= 2
    /\ Len(stream) = 3
    /\ Len(state.centers) = 2
    /\ state.centers[1].d_rank = 0
    /\ state.centers[2].d_rank = 2

\* C23: within a phase the registry is append-only: a step that is not the
\* reinit of a restart keeps the registry or adds one facility at rank len,
\* every facility staying at its rank with its d_rank and its center; the
\* reinit alone shortens the registry, and empties it.
C23_AppendOnlyWithinPhase ==
    [][IF pc = "recycle" /\ pc' = "add"
       THEN state'.centers = << >>
       ELSE /\ Len(state'.centers) \in {Len(state.centers), Len(state.centers) + 1}
            /\ \A r \in 1..Len(state.centers) :
                  /\ state'.centers[r].d_rank = state.centers[r].d_rank
                  /\ state'.centers[r].center = state.centers[r].center]_vars

\* in phase 0 the second point has opened the facility of rank 1 and the
\* third has been merged into the facility of rank 0
C23_Witness ==
    /\ state.phase = 0
    /\ Len(stream) = 3
    /\ pc = "done"
    /\ Len(state.centers) = 2
    /\ state.centers[1].d_rank = 0
    /\ state.centers[1].weight = 2
    /\ state.centers[2].d_rank = 1

\* C24: every facility of the registry, in every state and after restarts
\* too, is centered on an input point: its d_rank is the id of a point of the
\* stream and its center is the position of that point.
C24_CentersAreInputPoints ==
    \A r \in 1..Len(state.centers) :
        \E j \in 1..Len(stream) :
            /\ stream[j].id = state.centers[r].d_rank
            /\ stream[j].pt = state.centers[r].center

\* inside the reprocessing of a restart, the facility of the third point has
\* been opened again at rank 1, at the position of the third point, which is
\* not that of the second
C24_Witness ==
    /\ Len(stack) = 2
    /\ state.phase = 1
    /\ Len(stream) = 3
    /\ stream[3].pt # stream[2].pt
    /\ Len(state.centers) = 2
    /\ state.centers[2].d_rank = 2
    /\ state.centers[2].center = stream[3].pt

\* floor(log2 n) for n >= 1: the e with 2^e <= n < 2^(e+1)
FloorLog2(n) == CHOOSE e \in 0..n : Pow(2, e) <= n /\ n < Pow(2, e + 1)

\* process_block has built its state
StateBuilt == pc \notin {"new", "engine"} /\ bmor.nbdata_expected >= 1

\* the integer f with f <= num / den < f + 1, for num >= 0 and den > 0
IsFloorOf(f, num, den) == f * den <= num /\ num < (f + 1) * den

\* C25: the state process_block builds starts in phase 0 with li = 1,
\* phase_cost_upper = gamma, facility_bound = floor(gamma * (1 + floor(log2
\* n)) * k) and oneplogn = (1 + floor(log2 n)) * k; no later step, restarts
\* included, changes facility_bound or oneplogn.
C25_DerivedConstants ==
    /\ [][pc = "engine" /\ pc' = "add"
            => /\ state'.phase = 0
               /\ state'.li = 1
               /\ FracEq(state'.phase_cost_upper, bmor.gamma)
               /\ state'.centers = << >>]_vars
    /\ [](StateBuilt
            => /\ IsFloorOf(state.facility_bound,
                            bmor.gamma[1] * (1 + FloorLog2(bmor.nbdata_expected)) * bmor.k,
                            bmor.gamma[2])
               /\ state.oneplogn = (1 + FloorLog2(bmor.nbdata_expected)) * bmor.k)
    /\ [][StateBuilt
            => /\ state'.facility_bound = state.facility_bound
               /\ state'.oneplogn = state.oneplogn]_vars

\* with k = 1, n = 3, gamma = 5/4 the logarithm is floored to 1 and the
\* product 5/2 to 2: oneplogn and facility_bound are 2, and still are after
\* a restart
C25_Witness ==
    /\ pc = "add"
    /\ bmor.k = 1
    /\ bmor.nbdata_expected = 3
    /\ bmor.gamma = <<5, 4>>
    /\ state.phase >= 1
    /\ state.facility_bound = 2
    /\ state.oneplogn = 2

\* the ranks (1-based) of the facilities at distance <= dmax from the point
WithinDmax ==
    { r \in 1..Len(centers) :
        IF centers[r].center >= point
        THEN centers[r].center - point <= dmax
        ELSE point - centers[r].center <= dmax }

\* C26: match_point returns true exactly when some facility of the registry
\* is at distance <= dmax from the point, hence false on an empty registry;
\* it reads the facilities in rank order up to the first that matches and no
\* further, and leaves the registry as it was.
C26_MatchPointIffWithin ==
    /\ [](npc = "returned"
            => /\ matched.res = (WithinDmax # {})
               /\ (Len(centers) = 0 => matched.res = FALSE)
               /\ (matched.res
                     => /\ matched.scanned \in WithinDmax
                        /\ \A r \in WithinDmax : matched.scanned <= r)
               /\ (~matched.res => matched.scanned = Len(centers)))
    /\ [][npc = "call" => npc' = "returned" /\ centers' = centers]_vars

\* match_point has returned true on the facility of rank 1, at distance dmax
\* exactly, without reading the facility of rank 2, which matches too
C26_Witness ==
    /\ npc = "returned"
    /\ Len(centers) = 3
    /\ dmax = 1
    /\ matched.res
    /\ matched.scanned = 2
    /\ WithinDmax = {2, 3}
    /\ centers[2].center - point = 1

\* the radius of the point a facility of Mettu-Plaxton was opened on
MpRadiusOf(f) == mp_points[f.d_rank + 1].r

\* C27: the points being visited by ascending radius and a point opened
\* exactly when match_point(point, alpha * r) is false on the facilities
\* opened so far, every two opened facilities are further apart than
\* alpha times the smaller of their two radii.
C27_MpSeparation ==
    \A a, b \in 1..Len(centers) :
        a < b =>
          LET rmin == IF MpRadiusOf(centers[a]) <= MpRadiusOf(centers[b])
                      THEN MpRadiusOf(centers[a]) ELSE MpRadiusOf(centers[b])
              d    == IF centers[a].center >= centers[b].center
                      THEN centers[a].center - centers[b].center
                      ELSE centers[b].center - centers[a].center
          IN  d > mp_alpha * rmin

\* three points visited: the second was within alpha * r of the first and
\* was not opened, the third was opened
C27_Witness ==
    /\ npc = "mp_done"
    /\ Len(mp_points) = 3
    /\ mp_points[2].pt # mp_points[1].pt
    /\ Len(centers) = 2
    /\ centers[1].d_rank = 0
    /\ centers[2].d_rank = 2

\* every weight of the stream is positive
PositiveStream == \A j \in 1..Len(stream) : stream[j].w > 0

\* the draw of update has no part in what update does to the item (weight,
\* dist): li > 0 being given, every u of [0,1) is below weight * dist *
\* oneplogn / li when that quotient is at least 1, and none is when it is at
\* most 0
DrawForced(st, weight, dist) ==
    \/ weight * dist * st.oneplogn >= st.li
    \/ weight * dist * st.oneplogn <= 0

\* the loop of process_weighted_block on data from item i on, in the state
\* st, as far as the first add_data that returns false: whether the loop
\* gets there with no draw having had a part, and the state it is then in
RECURSIVE ForcedRun(_, _, _)
ForcedRun(st, data, i) ==
    IF i > Len(data) THEN [fails |-> FALSE, state |-> st]
    ELSE LET it == data[i]
             r  == AddDataOp(st, it.id, it.pt, it.w, <<0, 1>>)
         IN  IF /\ Len(st.centers) > 0
                /\ ~DrawForced(st, it.w, GetNearestFacility(st.centers, it.pt).dist)
             THEN [fails |-> FALSE, state |-> st]
             ELSE IF r.exit \/ r.panic THEN [fails |-> FALSE, state |-> st]
             ELSE IF ~r.res THEN [fails |-> TRUE, state |-> r.state]
             ELSE ForcedRun(r.state, data, i + 1)

\* the fields of a state that a step of the processing reads: phase and
\* nb_inserted are written, and read for the log only
ReadFields(st) == [st EXCEPT !.phase = 0, !.nb_inserted = 0]

\* a call of process_weighted_block on data in the state st that restarts
\* whatever is drawn, on a snapshot that is data again and in a state that
\* is st again: the recursive call is this call once more
CallRepeatsItself(st, data) ==
    LET r == ForcedRun(st, data, 1)
    IN  /\ st.li > 0
        /\ r.fails
        /\ Snapshot(r.state.centers) = data
        /\ ReadFields(Reinit(r.state, bmor.beta * r.state.li,
                             FracTimes(bmor.beta, r.state.phase_cost_upper)))
             = ReadFields(st)

\* C28: with k >= 1, n >= 1, beta >= 1, gamma >= 1 the processing of a finite
\* stream ends: the restarts a failing update starts are finitely many and
\* the rest of the stream is then processed to its end.  The reprocessing a
\* restart starts can then end: the recursive call is never entered on data
\* and in a state from which, whatever is drawn, it comes to restart on the
\* same data in the same state.  Stated for the streams of positive weights.
C28_ReprocessingCanEnd ==
    (/\ ValidParams
     /\ PositiveStream
     /\ pc = "add"
     /\ Len(stack) >= 2
     /\ Top.i = 1
     /\ Len(state.centers) = 0)
        => ~CallRepeatsItself(state, Top.data)

\* the items whose closure has stored its contribution to the facility of rank r
AppliedTo(r) ==
    { i \in 1..Len(wpc) :
        wpc[i] \in {"label", "labelling", "done"} /\ w_near[i].rank = r }

\* C29: in the parallel loop of dispatch_data a closure adds its weight and
\* its weight * distance to its nearest facility in one section under the
\* write lock of that facility, which it enters only when no other closure
\* holds the lock; no addition is lost: a facility whose lock is free
\* carries the weights and the costs of exactly the items that stored
\* theirs, and at the return, for every interleaving, the weights and the
\* weight * distance of all the items whose nearest facility it is.
C29_AtomicContribution ==
    /\ [][\A i \in 1..Len(wpc) :
            (dpc = "par" /\ wpc[i] = "lock" /\ wpc'[i] = "update")
                => /\ locks[w_near[i].rank + 1] = 0
                   /\ locks'[w_near[i].rank + 1] = i]_vars
    /\ [](dcall = "dispatch_data" /\ dpc = "par"
            => \A r \in 0..(Len(centers) - 1) :
                 locks[r + 1] = 0
                   => /\ centers[r + 1].weight = InputWeightOver(AppliedTo(r))
                      /\ centers[r + 1].cost = InputCostOver(AppliedTo(r)))
    /\ [](dcall = "dispatch_data" /\ dpc = "done"
            => \A r \in 0..(Len(centers) - 1) :
                 /\ centers[r + 1].weight = InputWeightOver(ItemsOf(r))
                 /\ centers[r + 1].cost = InputCostOver(ItemsOf(r)))

\* dispatch_data has returned; two items of different weights had the same
\* nearest facility, at a positive distance, and it carries both
C29_Witness ==
    /\ dcall = "dispatch_data"
    /\ dpc = "done"
    /\ Len(d_data) = 2
    /\ d_weights.some
    /\ d_weights.v[1] # d_weights.v[2]
    /\ \E r \in 0..(Len(centers) - 1) :
         /\ ItemsOf(r) = {1, 2}
         /\ centers[r + 1].weight = d_weights.v[1] + d_weights.v[2]
         /\ centers[r + 1].cost > 0

\* the distance of item i to the facility of rank r (0-based)
ItemDist(i, r) ==
    IF centers[r + 1].center >= d_data[i]
    THEN centers[r + 1].center - d_data[i]
    ELSE d_data[i] - centers[r + 1].center

\* C30: dispatch_data and dispatch_labels change the weight and the cost of
\* facilities and nothing else of the registry: no step of a call changes the
\* number of facilities, their order, a d_rank or a center; and the facility
\* a closure found nearest to its item is, whatever the other closures have
\* stored in the meantime, a facility than which none is nearer.
C30_DispatchFrame ==
    /\ [][/\ Len(centers') = Len(centers)
          /\ \A r \in 1..Len(centers) :
                /\ centers'[r].d_rank = centers[r].d_rank
                /\ centers'[r].center = centers[r].center]_vars
    /\ [](\A i \in 1..Len(wpc) :
            wpc[i] \in {"lock", "update", "label", "labelling", "done"}
                => /\ w_near[i].rank \in 0..(Len(centers) - 1)
                   /\ w_near[i].dist = ItemDist(i, w_near[i].rank)
                   /\ \A q \in 0..(Len(centers) - 1) :
                         w_near[i].dist <= ItemDist(i, q))

\* dispatch_labels has returned: both facilities of the registry received
\* weight, and an item that found its facility after the other had stored
\* its own is at a positive distance of it
C30_Witness ==
    /\ dcall = "dispatch_labels"
    /\ dpc = "done"
    /\ Len(centers) = 2
    /\ Len(d_data) = 2
    /\ centers[1].d_rank = 0
    /\ centers[2].d_rank = 1
    /\ centers[1].weight > 0
    /\ centers[2].weight > 0
    /\ w_near[1].rank # w_near[2].rank
    /\ w_near[2].dist > 0

----------------------------------------------------------------------------
(* Claims C31 .. C36 *)

\* Facilities::get_weight: the sum of the weights of the facilities 1 .. n
RECURSIVE RegistryWeight(_, _)
RegistryWeight(cs, n) == IF n = 0 THEN 0 ELSE RegistryWeight(cs, n - 1) + cs[n].weight

\* the sum of the weights of the items a .. b of a weighted block
RECURSIVE BlockWeight(_, _, _)
BlockWeight(data, a, b) ==
    IF a > b THEN 0 ELSE data[a].w + BlockWeight(data, a + 1, b)

\* the weight of the recycled facilities the calls of depth 2 .. n have still
\* to treat
RECURSIVE PendingWeight(_)
PendingWeight(n) ==
    IF n <= 1 THEN 0
    ELSE PendingWeight(n - 1) + BlockWeight(stack[n].data, stack[n].i, Len(stack[n].data))

\* C31: the weights of the stream being non-negative, no weight is lost or
\* duplicated by the restarts: while the stream is processed, the weights of
\* the facilities and of the recycled facilities still to be treated by the
\* nested calls sum to the weights of the stream points passed to add_data,
\* and once processing has returned the facility weights sum to the weights
\* of the whole stream.
C31_WeightConservedAcrossRestarts ==
    NonNegStream
        => /\ (pc \in {"add", "recycle"} /\ Len(stack) >= 1)
                => RegistryWeight(state.centers, Len(state.centers))
                       + PendingWeight(Len(stack))
                     = BlockWeight(stream, 1, stack[1].i - 1)
           /\ pc = "done"
                => RegistryWeight(state.centers, Len(state.centers))
                     = BlockWeight(stream, 1, Len(stream))

\* a three-point stream has been processed through two restarts; one
\* facility stands for two points
C31_Witness ==
    /\ pc = "done"
    /\ NonNegStream
    /\ Len(stream) = 3
    /\ state.phase >= 2
    /\ Len(state.centers) = 2
    /\ \E r \in 1..2 : state.centers[r].weight = 2
    /\ RegistryWeight(state.centers, 2) = 3

\* C32: both calls begin by zeroing the weight and the cost of every
\* facility, so what the registry carried before the call has no part in the
\* outcome: the call made a second time with the same points and weights,
\* on the registry the first call left, ends for every interleaving with
\* the same weight and cost in every facility and the same global cost as
\* the first; and the outcome on a registry that came with weights and costs
\* is that on a fresh one, the weights and costs of the items alone.
C32_DispatchIdempotent ==
    /\ (dpc = "done" /\ d_first.done)
          => /\ centers = d_first.centers
             /\ global_cost = d_first.global_cost
    /\ (dpc = "done" /\ dcall = "dispatch_data")
          => \A r \in 0..(Len(centers) - 1) :
               centers[r + 1].weight = InputWeightOver(ItemsOf(r))

\* the second of two calls of dispatch_data has returned: two items of
\* weights 1 and 2 went to the same facility at a positive cost
C32_Witness ==
    /\ dcall = "dispatch_data"
    /\ dpc = "done"
    /\ d_first.done
    /\ Len(d_data) = 2
    /\ d_weights.some
    /\ \E r \in 1..Len(centers) :
          /\ centers[r].weight = 3
          /\ centers[r].cost > 0
          /\ d_first.centers[r].weight = 3
    /\ global_cost > 0
    /\ global_cost = d_first.global_cost

\* the closure of item i exists and stands at pos
WorkerAt(i, pos) == i <= Len(wpc) /\ wpc[i] = pos

\* C33: the parallel loops of dispatch_data and dispatch_labels cannot
\* deadlock.  A closure holds at most one lock at any moment (the read lock
\* of one facility while it scans, or the write lock of one facility, or the
\* lock of one histogram) and takes a lock only when it holds none; a closure
\* that waits, has ended or has panicked holds none.  Hence, the threads
\* being run fairly, the parallel loop is left by every closure, and a
\* closure that has come to wait for the write lock of its facility
\* completes its item.
C33_DeadlockFree ==
    /\ [](\A i \in 1..Len(held) : Cardinality(held[i]) <= 1)
    /\ [][\A i \in 1..Len(held) : (held'[i] \ held[i]) # {} => held[i] = {}]_vars
    /\ [](\A i \in 1..Len(held) :
            wpc[i] \in {"nearest", "lock", "label", "done", "panic"} => held[i] = {})
    /\ (dpc = "par") ~> (dpc \in {"done", "panic"})
    /\ \A i \in 1..(MaxItems + 1) : WorkerAt(i, "lock") ~> WorkerAt(i, "done")

\* dispatch_labels has returned; its two closures went to the same facility,
\* which they read, wrote and counted in, one after the other
C33_Witness ==
    /\ dcall = "dispatch_labels"
    /\ dpc = "done"
    /\ Len(wpc) = 2
    /\ Len(centers) = 2
    /\ w_near[1].rank = w_near[2].rank
    /\ scan_i = <<2, 2>>
    /\ held = <<{}, {}>>
    /\ centers[w_near[1].rank + 1].weight >= 2

\* the mass of the histogram of the facility of rank r over the labels of S
RECURSIVE HistMass(_, _)
HistMass(r, S) ==
    IF S = {} THEN 0
    ELSE LET l == CHOOSE x \in S : TRUE
         IN  label_distribution[r + 1][l] + HistMass(r, S \ {l})

\* the masses of the histograms of the facilities 1 .. n
RECURSIVE HistMasses(_)
HistMasses(n) == IF n = 0 THEN 0 ELSE HistMasses(n - 1) + HistMass(n - 1, Labels)

\* C34: when dispatch_labels has returned, whatever the interleaving, the
\* histogram of a facility counts under each label the points of that label
\* whose nearest facility it is, each once: its mass is the number of those
\* points, the masses of all the histograms sum to the number of points
\* given, and when no weights were given the weight of a facility is the
\* mass of its histogram.
C34_HistogramCountsEachPointOnce ==
    (dcall = "dispatch_labels" /\ dpc = "done")
        => /\ \A r \in 0..(Len(centers) - 1) :
                /\ \A l \in Labels :
                      label_distribution[r + 1][l]
                        = Cardinality({ i \in ItemsOf(r) : d_labels[i] = l })
                /\ HistMass(r, Labels) = Cardinality(ItemsOf(r))
                /\ ~d_weights.some => centers[r + 1].weight = HistMass(r, Labels)
           /\ HistMasses(Len(centers)) = Len(d_data)

\* dispatch_labels, given no weights, has returned: two points of the same
\* label went to the same facility, whose histogram and weight count both
C34_Witness ==
    /\ dcall = "dispatch_labels"
    /\ dpc = "done"
    /\ ~d_weights.some
    /\ Len(d_data) = 2
    /\ d_labels[1] = d_labels[2]
    /\ \E r \in 0..(Len(centers) - 1) :
          /\ ItemsOf(r) = {1, 2}
          /\ label_distribution[r + 1][d_labels[1]] = 2
          /\ centers[r + 1].weight = 2

\* C35: a restart is begun only on a registry of at least one facility, so
\* the assertions on the snapshot hold and the call does not panic; update
\* is entered only on a registry that is not empty (add_data itself opens
\* the facility of an empty one and returns true), so update never leaves
\* the process through its "did not find nearest facility" branch.
C35_RestartOnNonEmptyRegistry ==
    /\ [](pc = "recycle" => Len(state.centers) >= 1 /\ ~add_res)
    /\ [](pc \notin {"panic", "exit"})
    /\ [][(pc = "add" /\ Len(stack) > 0 /\ Top.i <= Len(Top.data)
              /\ Len(state.centers) = 0)
            => /\ add_res'
               /\ pc' = "add"
               /\ Len(state'.centers) = 1]_vars
    /\ [][pc = "recycle" => Len(Top'.data) = Len(state.centers) /\ Len(Top'.data) >= 1]_vars

\* an update has failed in the reprocessing of a restart, on the second
\* recycled facility: a restart nested in a restart is about to begin
C35_Witness ==
    /\ pc = "recycle"
    /\ Len(stack) = 2
    /\ state.phase = 1
    /\ Len(state.centers) >= 2
    /\ ~add_res

\* C36: on a data set of at least 2 points get_neighborhood_size returns
\* its sketch and does not panic: the sampling of an anchor never keeps the
\* anchor itself, and when the sampling of an anchor is over dvec holds at
\* least two distances, so that dvec[0] and dvec[1] are in range; at the
\* return every anchor has given its two distances.
C36_NeighborhoodSketched ==
    Len(scale.data) >= 2
        => /\ scale.pc # "panic"
           /\ scale.i \notin scale.picked
           /\ (scale.pc = "explore" /\ scale.i < scale.nb_sample
                  /\ scale.k = scale.nb_sample)
                => Len(scale.dvec) >= 2
           /\ scale.pc = "returned"
                => Len(scale.dist_2) = scale.nb_sample /\ scale.nb_sample >= 1

=============================================================================
